---- MODULE Spec2Model ----
(***************************************************************************)
(* Model of the monarch2 driver (sevents-os/sequans-rs): the shared        *)
(* ModemState, the UrcHandler task and the high-level operations of Modem. *)
(*                                                                         *)
(* The modem task is modelled at the granularity of its suspension points  *)
(* (the .await of a send, of a Timer::after and of a Signal::wait): one    *)
(* action resumes the task from a suspension point and runs it to the next *)
(* one.  The UrcHandler task takes one step per URC message.               *)
(***************************************************************************)
EXTENDS Integers, Sequences, FiniteSets, TLC

(***************************************************************************)
(* Bounds of the model.                                                    *)
(***************************************************************************)
\* GnssFixReady.fix_id values delivered by the modem: 0..MaxFixId
MaxFixId == 1
\* longest payload handed to nvm_write
MaxDataLen == 2
\* longest URC script of the UrcHandler-only specification
MaxUrcLen == 3
\* MqttConnected values recorded per wait window
MaxWindow == 2
\* begin() is called while its log holds at most this many entries
MaxBeginLog == 6
\* writes and reads of reg_state recorded in one behaviour
MaxObserved == 4

(***************************************************************************)
(* Program constants.                                                      *)
(***************************************************************************)
MODEM_MIN_VALID_TIMESTAMP == 1672531200
\* for _ in 0..5 (get_time)
GET_TIME_RETRIES == 5
\* Timer::after durations, in milliseconds
GET_TIME_RETRY_MS == 500
LTE_CONNECT_POLL_MS == 1000
LTE_DISCONNECT_POLL_MS == 100
\* update_gnss_asistance: `for _ in 0..10` and its Timer::after(Duration::from_secs(10))
UPDATE_ASSISTANCE_POLLS == 10
UPDATE_ASSISTANCE_POLL_MS == 10000

(***************************************************************************)
(* Value types.                                                            *)
(***************************************************************************)
NetworkRegistrationState ==
    { "NotSearching", "RegisteredHome", "Searching", "Denied", "Unknown",
      "RegisteredRoaming", "RegisteredSmsOnlyHome", "RegisteredSmsOnlyRoaming",
      "AttachedEmergencyOnly", "RegisteredCsfbNotPreferredHome",
      "RegisteredCsfbNotPreferredRoaming", "RegisteredTempConnLoss" }

MQTTStatusCode ==
    { "Success", "NoMem", "Protocol", "Inval", "NoConn", "ConnRefused",
      "NotFound", "ConnLost", "Tls", "PayloadSize", "NotSupported", "Auth",
      "AclDenied", "Unknown", "Errno", "Eai", "Proxy", "Unavailable" }

\* the return codes the modelled modem reports in +SQNSMQTTONCONNECT
ConnectRcs == { "Success", "ConnRefused", "Auth" }

FixIds == 0..MaxFixId

\* the variants of command::Urc
UrcMessages ==
    [urc : {"NetworkRegistrationStatus"}, stat : NetworkRegistrationState]
    \cup [urc : {"MqttConnected"}, id : {0}, rc : ConnectRcs]
    \cup [urc : {"GnssFixReady"}, fix_id : FixIds]
    \cup [urc : { "MqttDisconnected", "MqttMessagePublished", "MqttMessageReceived",
                  "MqttSubscribed", "MqttPromptToPublish", "Shutdown", "Start",
                  "CoapConnected" }]

\* Result values
Unit == [unit |-> TRUE]
Ok(v) == [kind |-> "Ok", val |-> v]
Err(e) == [kind |-> "Err", val |-> e]
ErrAT == Err([err |-> "AT"])
ErrTimeout == Err([err |-> "Timeout"])
ErrClockSynchronization == Err([err |-> "ClockSynchronization"])
ErrMQTT(rc) == Err([err |-> "MQTT", rc |-> rc])

VARIABLES
    \* ModemState
    reg_state,        \* NetworkRegistrationState
    mqtt_connected,   \* Signal: <<>> or <<mqtt::urc::Connected>>
    fix_subscriber,   \* Signal: <<>> or <<GnssFixReady>>
    \* the task that drives the Modem handle
    stack,            \* frames [fn, pc, timer] of the async calls in progress, innermost first
    trace,            \* commands passed to the transport (and loop delays) in the current call
    inflight,         \* AT requests passed to the transport and not yet returned
    clock,            \* get_time: the local `clock`
    retries,          \* get_time: iterations of the retry loop started
    readings,         \* get_time: the clocks that GetClock returned in the current call
    polled,           \* value read by the last get_network_registration_state()
    result,           \* what the last finished operation returned
    args,             \* the arguments of the operation called last
    panicked,         \* an assertion failed
    \* the fields of Modem
    initialized,      \* begin() has completed
    update_almanac,   \* check_assistance_data: the almanac needs an update
    update_ephemeris, \* check_assistance_data: the real-time ephemeris needs an update
    checks,           \* update_gnss_asistance: iterations of the polling loop started
    begun,            \* the commands begin() has sent and what it returned, over all its calls
    pending_mqtt,     \* what happened to mqtt_connected since its value was last taken
    pending_fix,      \* what happened to fix_subscriber since its value was last taken
                      \* (both are recorded by UrcHandlerRunLogged only)
    assistance,       \* the first and the latest response that check_assistance_data
                      \* processed in the current call
    \* history of the UrcHandler
    mqtt_window,      \* MqttConnected values signalled during the current mqtt_connect wait
    fix_window,       \* GnssFixReady values signalled between the reset of get_gnss_fix
                      \* and the end of its wait, each with the suspension point of the task
    urc_script,       \* UrcHandler-only specification: the URC sequence to process
    urc_pos,          \* ... and how many of them were processed
    \* the process
    cell_init,        \* MODEM_STATE_CELL holds a ModemState
    subscribers,      \* UrcHandlers subscribed to the URC channel
    modems,           \* Modem handles in existence
    handled,          \* the message the UrcHandler took from the subscription last
                      \* (recorded by UrcHandlerRunRecorded only)
    observed          \* the writes and the reads of reg_state, in order (recorded by
                      \* the actions of SpecPoll only)

modem_state == <<reg_state, mqtt_connected, fix_subscriber>>
task_vars == <<stack, trace, inflight, clock, retries, readings, polled, result, args,
               initialized, update_almanac, update_ephemeris, checks, begun, assistance,
               pending_mqtt, pending_fix>>
\* what outlives a Modem handle: the URC channel and MODEM_STATE_CELL
static_vars == <<urc_script, urc_pos, cell_init, subscribers, modems, handled, observed>>
history_vars == <<mqtt_window, fix_window>>
vars == <<reg_state, mqtt_connected, fix_subscriber, stack, trace, inflight, clock,
          retries, readings, polled, result, args, panicked, initialized, update_almanac,
          update_ephemeris, checks, begun, assistance, pending_mqtt, pending_fix, mqtt_window, fix_window, urc_script, urc_pos,
          cell_init, subscribers, modems, handled, observed>>

NoClock == [timestamp |-> -1, offset |-> 0]
NoResult == [op |-> "none", kind |-> "None", val |-> Unit]
NoArgs == [none |-> TRUE]

(***************************************************************************)
(* ModemState::new and Modem::new.                                         *)
(***************************************************************************)
ModemState_new ==
    /\ reg_state = "NotSearching"
    /\ mqtt_connected = <<>>
    /\ fix_subscriber = <<>>

Modem_new ==
    /\ stack = <<>>
    /\ trace = <<>>
    /\ inflight = 0
    /\ clock = NoClock
    /\ retries = 0
    /\ readings = <<>>
    /\ polled = "none"
    /\ result = NoResult
    /\ args = NoArgs
    /\ panicked = FALSE
    /\ initialized = FALSE
    /\ update_almanac = FALSE
    /\ update_ephemeris = FALSE
    /\ checks = 0
    /\ begun = <<>>
    /\ assistance = <<>>
    /\ pending_mqtt = <<>>
    /\ pending_fix = <<>>
    /\ cell_init = TRUE
    /\ subscribers = 0
    /\ modems = 1
    /\ handled = <<>>
    /\ observed = <<>>

Init ==
    /\ ModemState_new
    /\ Modem_new
    /\ mqtt_window = <<>>
    /\ fix_window = <<>>
    /\ urc_script = <<>>
    /\ urc_pos = 0

(***************************************************************************)
(* UrcHandler::run: one iteration of the loop, for message msg.           *)
(***************************************************************************)
\* faulty variant: a value that is already latched is kept
Signal_signal_KeepsFirst(slot, v) == IF slot = <<>> THEN <<v>> ELSE slot

\* Signal::signal: the slot holds the last value signalled
Signal_signal(slot, v) == <<v>>

\* faulty variant: the registration state is stored only while it is still the initial one
HandleUrc_KeepsFirstStat(msg) ==
    /\ reg_state' = IF msg.urc = "NetworkRegistrationStatus" /\ reg_state = "NotSearching"
                    THEN msg.stat ELSE reg_state
    /\ mqtt_connected' = IF msg.urc = "MqttConnected"
                         THEN Signal_signal(mqtt_connected, [id |-> msg.id, rc |-> msg.rc])
                         ELSE mqtt_connected
    /\ fix_subscriber' = IF msg.urc = "GnssFixReady"
                         THEN Signal_signal(fix_subscriber, [fix_id |-> msg.fix_id])
                         ELSE fix_subscriber

\* faulty variant: MqttDisconnected signals mqtt_connected as well
HandleUrc_SignalsDisconnected(msg) ==
    /\ reg_state' = IF msg.urc = "NetworkRegistrationStatus" THEN msg.stat ELSE reg_state
    /\ mqtt_connected' = IF msg.urc = "MqttConnected"
                         THEN Signal_signal(mqtt_connected, [id |-> msg.id, rc |-> msg.rc])
                         ELSE IF msg.urc = "MqttDisconnected"
                              THEN Signal_signal(mqtt_connected,
                                                 [id |-> 0, rc |-> "ConnRefused"])
                              ELSE mqtt_connected
    /\ fix_subscriber' = IF msg.urc = "GnssFixReady"
                         THEN Signal_signal(fix_subscriber, [fix_id |-> msg.fix_id])
                         ELSE fix_subscriber

HandleUrc(msg) ==
    /\ reg_state' = IF msg.urc = "NetworkRegistrationStatus" THEN msg.stat ELSE reg_state
    /\ mqtt_connected' = IF msg.urc = "MqttConnected"
                         THEN Signal_signal(mqtt_connected, [id |-> msg.id, rc |-> msg.rc])
                         ELSE mqtt_connected
    /\ fix_subscriber' = IF msg.urc = "GnssFixReady"
                         THEN Signal_signal(fix_subscriber, [fix_id |-> msg.fix_id])
                         ELSE fix_subscriber

\* is the modem task suspended in the Signal::wait of mqtt_connect?
InMqttWait == stack # <<>> /\ Head(stack).fn = "mqtt_connect" /\ Head(stack).pc = "wait"

\* is the modem task in get_gnss_fix, between the reset and the end of the wait?
InFixWait ==
    stack # <<>> /\ Head(stack).fn = "get_gnss_fix" /\ Head(stack).pc \in {"program", "wait"}

\* the history of what the handler signalled during a wait
RecordUrc(msg) ==
    /\ mqtt_window' = IF msg.urc = "MqttConnected" /\ InMqttWait
                      THEN Append(mqtt_window, msg.rc)
                      ELSE mqtt_window
    /\ fix_window' = IF msg.urc = "GnssFixReady" /\ InFixWait
                     THEN Append(fix_window, [fix_id |-> msg.fix_id, during |-> Head(stack).pc])
                     ELSE fix_window

\* a UrcHandler exists and runs: it holds a subscription of the URC channel
Subscribed == subscribers > 0 /\ ~panicked

\* one iteration of the loop, for one of the given messages
UrcHandlerRunOn(messages) ==
    /\ Subscribed
    /\ \E msg \in messages :
        /\ msg.urc = "MqttConnected" /\ InMqttWait => Len(mqtt_window) < MaxWindow
        /\ msg.urc = "GnssFixReady" /\ InFixWait => Len(fix_window) < MaxWindow
        /\ HandleUrc(msg)
        /\ RecordUrc(msg)
    /\ UNCHANGED <<task_vars, panicked, static_vars>>

\* one iteration of the loop, for any message the subscription may deliver
UrcHandlerRun == UrcHandlerRunOn(UrcMessages)

\* one iteration of the loop, for a +CEREG message
UrcHandlerRunCereg ==
    UrcHandlerRunOn([urc : {"NetworkRegistrationStatus"}, stat : NetworkRegistrationState])

\* one iteration of the loop, for the next message of a given finite sequence
UrcHandlerRunScript ==
    /\ Subscribed
    /\ urc_pos < Len(urc_script)
    /\ HandleUrc(urc_script[urc_pos + 1])
    /\ urc_pos' = urc_pos + 1
    /\ UNCHANGED <<task_vars, panicked, history_vars, urc_script, cell_init, subscribers,
                   modems, handled, observed>>

\* one iteration of the loop, for any message the subscription may deliver, with
\* a record of the message: at most MaxUrcLen messages are delivered
UrcHandlerRunRecorded ==
    /\ Subscribed
    /\ urc_pos < MaxUrcLen
    /\ \E msg \in UrcMessages :
        /\ msg.urc = "MqttConnected" /\ InMqttWait => Len(mqtt_window) < MaxWindow
        /\ msg.urc = "GnssFixReady" /\ InFixWait => Len(fix_window) < MaxWindow
        /\ HandleUrc(msg)
        /\ RecordUrc(msg)
        /\ handled' = <<msg>>
    /\ urc_pos' = urc_pos + 1
    /\ UNCHANGED <<task_vars, panicked, urc_script, cell_init, subscribers, modems, observed>>

(***************************************************************************)
(* The modem task as a value: the locals of the async calls in progress.   *)
(***************************************************************************)
Task ==
    [stack |-> stack, trace |-> trace, inflight |-> inflight, clock |-> clock,
     retries |-> retries, readings |-> readings, polled |-> polled, result |-> result,
     args |-> args, initialized |-> initialized, update_almanac |-> update_almanac,
     update_ephemeris |-> update_ephemeris, checks |-> checks, begun |-> begun,
     assistance |-> assistance, pending_mqtt |-> pending_mqtt, pending_fix |-> pending_fix]

SetTask(t) ==
    /\ stack' = t.stack
    /\ trace' = t.trace
    /\ inflight' = t.inflight
    /\ clock' = t.clock
    /\ retries' = t.retries
    /\ readings' = t.readings
    /\ polled' = t.polled
    /\ result' = t.result
    /\ args' = t.args
    /\ initialized' = t.initialized
    /\ update_almanac' = t.update_almanac
    /\ update_ephemeris' = t.update_ephemeris
    /\ checks' = t.checks
    /\ begun' = t.begun
    /\ assistance' = t.assistance
    /\ pending_mqtt' = t.pending_mqtt
    /\ pending_fix' = t.pending_fix

Frame(fn, pc) == [fn |-> fn, pc |-> pc, timer |-> 0]
Top(t) == Head(t.stack)
At(fn, pc) == stack # <<>> /\ Head(stack).fn = fn /\ Head(stack).pc = pc
Idle == stack = <<>> /\ ~panicked

\* the task moves to suspension point pc of the innermost call
Goto(t, pc) == [t EXCEPT !.stack = <<Frame(Top(t).fn, pc)>> \o Tail(t.stack)]

\* Timer::after(ms).await at suspension point pc
Sleep(t, pc, ms) ==
    [t EXCEPT !.stack = <<[fn |-> Top(t).fn, pc |-> pc, timer |-> ms]>> \o Tail(t.stack)]

\* the events of the trace
Cmd_SetFunctionality(fun) == [ev |-> "SetFunctionality", fun |-> fun, rst |-> "None"]
Cmd_PLMNSelection(mode) == [ev |-> "PLMNSelection", mode |-> mode]
Cmd_GetClock == [ev |-> "GetClock"]
Cmd_GetGnssAssitance == [ev |-> "GetGnssAssitance"]
Cmd_UpdateGnssAssitance(typ) == [ev |-> "UpdateGnssAssitance", typ |-> typ]
Cmd_ProgramGnss(action) == [ev |-> "ProgramGnss", action |-> action]
Cmd_MqttConnect(host, port) ==
    [ev |-> "mqtt::Connect", id |-> 0, host |-> host, port |-> port, keepalive |-> "None"]
\* faulty variant: the announced size is 0 whatever the data
Cmd_PrepareWrite_SizeZero(data_type, index, size) ==
    [ev |-> "nvm::PrepareWrite", data_type |-> data_type, index |-> index, size |-> 0]
Cmd_PrepareWrite(data_type, index, size) ==
    [ev |-> "nvm::PrepareWrite", data_type |-> data_type, index |-> index, size |-> size]
Cmd_Write(data) == [ev |-> "nvm::Write", data |-> data]
Delay(ms) == [ev |-> "Timer::after", ms |-> ms]
IsCmd(e) == e.ev # "Timer::after"
Commands(tr) == SelectSeq(tr, IsCmd)

\* Modem::send, first half: the command is passed to the transport and the
\* task suspends at pc until the transport returns
send(t, cmd, pc) ==
    Goto([t EXCEPT !.trace = Append(@, cmd), !.inflight = @ + 1], pc)

\* faulty variant: the task goes on without the transport having returned
sendReturned_NotAwaited(t) == t

\* Modem::send, second half: the transport has returned
sendReturned(t) == [t EXCEPT !.inflight = @ - 1]

\* a panic while the answer is deserialized inside send: the request is over and
\* no call of the task is left
sendPanicked(t) == [sendReturned(t) EXCEPT !.stack = <<>>]

(***************************************************************************)
(* UrcHandler::run with a record of what it signalled.                     *)
(***************************************************************************)
\* the entries of pending_mqtt and pending_fix
Signalled(v) == [ev |-> "signal", v |-> v]
WasReset == [ev |-> "reset"]
IsSignalled(e) == e.ev = "signal"
Signals(pending) == SelectSeq(pending, IsSignalled)
RecordReset(pending) ==
    IF pending # <<>> /\ IsSignalled(pending[Len(pending)]) THEN Append(pending, WasReset)
    ELSE pending

\* the messages that touch a signal, and the +CEREG messages that start and end
\* a registration
SignalMessages ==
    [urc : {"NetworkRegistrationStatus"}, stat : {"NotSearching", "RegisteredHome"}]
    \cup [urc : {"MqttConnected"}, id : {0}, rc : ConnectRcs]
    \cup [urc : {"GnssFixReady"}, fix_id : FixIds]

\* one iteration of the loop for a message of SignalMessages, with a record of
\* what was signalled
UrcHandlerRunLogged ==
    /\ Subscribed
    /\ \E msg \in SignalMessages :
        /\ msg.urc = "MqttConnected" =>
              /\ Len(Signals(pending_mqtt)) < MaxWindow
              /\ InMqttWait => Len(mqtt_window) < MaxWindow
        /\ msg.urc = "GnssFixReady" =>
              /\ Len(Signals(pending_fix)) < MaxWindow
              /\ InFixWait => Len(fix_window) < MaxWindow
        /\ HandleUrc(msg)
        /\ RecordUrc(msg)
        /\ SetTask([Task EXCEPT
                !.pending_mqtt = IF msg.urc = "MqttConnected"
                                 THEN Append(@, Signalled([id |-> msg.id, rc |-> msg.rc]))
                                 ELSE @,
                !.pending_fix = IF msg.urc = "GnssFixReady"
                                THEN Append(@, Signalled([fix_id |-> msg.fix_id]))
                                ELSE @])
    /\ UNCHANGED <<panicked, static_vars>>

(***************************************************************************)
(* Calls and returns.  Every call site of the driver is `f().await?`: an   *)
(* Err returned by the callee is returned by the caller at once.           *)
(***************************************************************************)
RECURSIVE Return(_, _)
RECURSIVE Resume(_, _)

\* lte_connect, from its call to the first suspension point
lte_connect(t) ==
    send([t EXCEPT !.stack = <<Frame("lte_connect", "start")>> \o @],
         Cmd_SetFunctionality("Full"), "cfun")

\* lte_disconnect, from its call to the first suspension point
lte_disconnect(t) ==
    send([t EXCEPT !.stack = <<Frame("lte_disconnect", "start")>> \o @],
         Cmd_SetFunctionality("Minimum"), "cfun")

\* get_time after lte_connect().await? returned Ok: the first Timer::after of the loop
get_time_synchronize(t) ==
    Sleep([t EXCEPT !.retries = 1, !.trace = Append(@, Delay(GET_TIME_RETRY_MS))],
          "retry_sleep", GET_TIME_RETRY_MS)

\* get_time after lte_disconnect().await? returned Ok
get_time_finish(t) ==
    IF t.clock.timestamp = 0
    THEN Return(t, ErrClockSynchronization)
    ELSE Return(t, Ok(t.clock))

\* mqtt_connect after lte_connect().await? returned Ok
mqtt_connect_send(t) ==
    send(t, Cmd_MqttConnect(t.args.host, t.args.port), "connect")

\* get_time, from its call to the first suspension point
get_time(t) ==
    send([t EXCEPT !.stack = <<Frame("get_time", "start")>> \o @], Cmd_GetClock, "clock0")

\* check_assistance_data, from its call to the first suspension point
check_assistance_data(t) ==
    send([t EXCEPT !.stack = <<Frame("check_assistance_data", "start")>> \o @],
         Cmd_GetGnssAssitance, "get")

\* update_gnss_asistance after lte_disconnect().await? returned Ok
update_gnss_asistance_get_time(t) == get_time(Goto(t, "get_time"))

\* update_gnss_asistance after get_time().await? returned Ok: the clock is dropped
update_gnss_asistance_check(t) ==
    check_assistance_data(Goto([t EXCEPT !.clock = NoClock, !.retries = 0, !.readings = <<>>],
                               "check0"))

\* faulty variant: the operation goes on although nothing needs an update
update_gnss_asistance_checked_NoReturn(t) == lte_connect(Goto(t, "lte_connect"))

\* update_gnss_asistance after the first check_assistance_data().await? returned Ok
update_gnss_asistance_checked(t) ==
    IF ~t.update_almanac /\ ~t.update_ephemeris
    THEN Return(t, Ok(Unit))
    ELSE lte_connect(Goto(t, "lte_connect"))

\* update_gnss_asistance: the first Timer::after of `for _ in 0..10`
update_gnss_asistance_poll(t) ==
    Sleep([t EXCEPT !.checks = 1, !.trace = Append(@, Delay(UPDATE_ASSISTANCE_POLL_MS))],
          "check_sleep", UPDATE_ASSISTANCE_POLL_MS)

\* update_gnss_asistance: `if self.update_ephemeris { send(UpdateGnssAssitance) }`
update_gnss_asistance_ephemeris(t) ==
    IF t.update_ephemeris
    THEN send(t, Cmd_UpdateGnssAssitance("RealTimeEphemeris"), "ephemeris")
    ELSE update_gnss_asistance_poll(t)

\* update_gnss_asistance after lte_connect().await? returned Ok
update_gnss_asistance_update(t) ==
    IF t.update_almanac
    THEN send(t, Cmd_UpdateGnssAssitance("Almanac"), "almanac")
    ELSE update_gnss_asistance_ephemeris(t)

\* faulty variant: the loop goes on until it has run UPDATE_ASSISTANCE_POLLS times
update_gnss_asistance_polled_NoBreak(t) ==
    IF t.checks >= UPDATE_ASSISTANCE_POLLS
    THEN lte_disconnect(Goto(t, "lte_disconnect1"))
    ELSE Sleep([t EXCEPT !.checks = @ + 1,
                         !.trace = Append(@, Delay(UPDATE_ASSISTANCE_POLL_MS))],
               "check_sleep", UPDATE_ASSISTANCE_POLL_MS)

\* faulty variant: the loop runs once more than UPDATE_ASSISTANCE_POLLS times
update_gnss_asistance_polled_OneMore(t) ==
    IF (~t.update_almanac /\ ~t.update_ephemeris) \/ t.checks > UPDATE_ASSISTANCE_POLLS
    THEN lte_disconnect(Goto(t, "lte_disconnect1"))
    ELSE Sleep([t EXCEPT !.checks = @ + 1,
                         !.trace = Append(@, Delay(UPDATE_ASSISTANCE_POLL_MS))],
               "check_sleep", UPDATE_ASSISTANCE_POLL_MS)

\* faulty variant: the operation returns from the loop with the radio still on
update_gnss_asistance_polled_NoDisconnect(t) ==
    IF (~t.update_almanac /\ ~t.update_ephemeris) \/ t.checks >= UPDATE_ASSISTANCE_POLLS
    THEN Return(t, Ok(Unit))
    ELSE Sleep([t EXCEPT !.checks = @ + 1,
                         !.trace = Append(@, Delay(UPDATE_ASSISTANCE_POLL_MS))],
               "check_sleep", UPDATE_ASSISTANCE_POLL_MS)

\* update_gnss_asistance after a check_assistance_data().await? of the loop returned Ok
update_gnss_asistance_polled(t) ==
    IF (~t.update_almanac /\ ~t.update_ephemeris) \/ t.checks >= UPDATE_ASSISTANCE_POLLS
    THEN lte_disconnect(Goto(t, "lte_disconnect1"))
    ELSE Sleep([t EXCEPT !.checks = @ + 1,
                         !.trace = Append(@, Delay(UPDATE_ASSISTANCE_POLL_MS))],
               "check_sleep", UPDATE_ASSISTANCE_POLL_MS)

\* the caller continues after callee returned Ok
Resume(t, callee) ==
    CASE Top(t).fn = "get_time" /\ callee = "lte_connect" -> get_time_synchronize(t)
      [] Top(t).fn = "get_time" /\ callee = "lte_disconnect" -> get_time_finish(t)
      [] Top(t).fn = "mqtt_connect" /\ callee = "lte_connect" -> mqtt_connect_send(t)
      [] Top(t).fn = "mqtt_disconnect" /\ callee = "lte_disconnect" -> Return(t, Ok(Unit))
      [] Top(t).fn = "update_gnss_asistance" /\ Top(t).pc = "lte_disconnect0" ->
            update_gnss_asistance_get_time(t)
      [] Top(t).fn = "update_gnss_asistance" /\ Top(t).pc = "get_time" ->
            update_gnss_asistance_check(t)
      [] Top(t).fn = "update_gnss_asistance" /\ Top(t).pc = "check0" ->
            update_gnss_asistance_checked(t)
      [] Top(t).fn = "update_gnss_asistance" /\ Top(t).pc = "lte_connect" ->
            update_gnss_asistance_update(t)
      [] Top(t).fn = "update_gnss_asistance" /\ Top(t).pc = "check_loop" ->
            update_gnss_asistance_polled(t)
      [] Top(t).fn = "update_gnss_asistance" /\ Top(t).pc = "lte_disconnect1" ->
            Return(t, Ok(Unit))
      [] OTHER -> t

\* the innermost call returns r
Return(t, r) ==
    LET fn == Top(t).fn
        rest == [t EXCEPT !.stack = Tail(@)]
    IN  IF rest.stack = <<>>
        THEN [rest EXCEPT !.result = [op |-> fn, kind |-> r.kind, val |-> r.val]]
        ELSE IF r.kind = "Err"
             THEN Return(rest, r)
             ELSE Resume(rest, fn)

\* a new top-level call on an idle Modem: the history of the previous call is dropped
Call(a) ==
    [Task EXCEPT !.stack = <<>>, !.trace = <<>>, !.clock = NoClock,
                 !.retries = 0, !.readings = <<>>, !.polled = "none", !.result = NoResult,
                 !.args = a, !.checks = 0, !.assistance = <<>>]

(***************************************************************************)
(* Modem::get_network_registration_state and the two polling loops.        *)
(***************************************************************************)
\* faulty variant: a registration that was notified once stays visible
get_network_registration_state_Latched ==
    IF \E i \in 1..Len(observed) :
           observed[i] = [ev |-> "cereg", state |-> "RegisteredHome"]
    THEN "RegisteredHome"
    ELSE reg_state

get_network_registration_state == reg_state

Registered == { "RegisteredHome", "RegisteredRoaming" }

\* faulty variant: the SMS-only registrations end the loop too
lte_connect_poll_SmsOnly(t, state) ==
    LET t1 == [t EXCEPT !.polled = state]
    IN  IF state \in Registered \cup {"RegisteredSmsOnlyHome", "RegisteredSmsOnlyRoaming"}
        THEN Return(t1, Ok(Unit))
        ELSE Sleep(t1, "poll_sleep", LTE_CONNECT_POLL_MS)

\* faulty variant: a roaming registration does not end the loop
lte_connect_poll_HomeOnly(t, state) ==
    LET t1 == [t EXCEPT !.polled = state]
    IN  IF state = "RegisteredHome"
        THEN Return(t1, Ok(Unit))
        ELSE Sleep(t1, "poll_sleep", LTE_CONNECT_POLL_MS)

\* lte_connect: one pass of `loop { match self.get_network_registration_state() ... }`
lte_connect_poll(t, state) ==
    LET t1 == [t EXCEPT !.polled = state]
    IN  IF state \in Registered
        THEN Return(t1, Ok(Unit))
        ELSE Sleep(t1, "poll_sleep", LTE_CONNECT_POLL_MS)

\* faulty variant: the loop ends as soon as the modem is no longer registered
lte_disconnect_poll_Unregistered(t, state) ==
    LET t1 == [t EXCEPT !.polled = state]
    IN  IF state \in Registered
        THEN Sleep(t1, "poll_sleep", LTE_DISCONNECT_POLL_MS)
        ELSE Return(t1, Ok(Unit))

\* faulty variant: the first test of the loop comes after a first delay
lte_disconnect_poll_DelaysFirst(t, state) ==
    LET t1 == [t EXCEPT !.polled = state]
    IN  IF state # "NotSearching" \/ Top(t).pc # "poll_sleep"
        THEN Sleep(t1, "poll_sleep", LTE_DISCONNECT_POLL_MS)
        ELSE Return(t1, Ok(Unit))

\* lte_disconnect: one test of `while self.get_network_registration_state() != NotSearching`
lte_disconnect_poll(t, state) ==
    LET t1 == [t EXCEPT !.polled = state]
    IN  IF state # "NotSearching"
        THEN Sleep(t1, "poll_sleep", LTE_DISCONNECT_POLL_MS)
        ELSE Return(t1, Ok(Unit))

(***************************************************************************)
(* Modem::lte_connect.                                                     *)
(***************************************************************************)
CallLteConnect ==
    /\ Idle
    /\ SetTask(lte_connect(Call(NoArgs)))
    /\ mqtt_window' = <<>> /\ fix_window' = <<>>
    /\ UNCHANGED <<modem_state, panicked, static_vars>>

\* set_op_state(Full).await? returns
LteConnectCfunReturns ==
    /\ At("lte_connect", "cfun")
    /\ \E ok \in BOOLEAN :
        SetTask(IF ok
                THEN send(sendReturned(Task), Cmd_PLMNSelection("Automatic"), "cops")
                ELSE Return(sendReturned(Task), ErrAT))
    /\ UNCHANGED <<modem_state, panicked, history_vars, static_vars>>

\* send(PLMNSelection).await? returns; the first poll follows without suspension
LteConnectCopsReturns ==
    /\ At("lte_connect", "cops")
    /\ \E ok \in BOOLEAN :
        SetTask(IF ok
                THEN lte_connect_poll(sendReturned(Task), get_network_registration_state)
                ELSE Return(sendReturned(Task), ErrAT))
    /\ UNCHANGED <<modem_state, panicked, history_vars, static_vars>>

\* Timer::after(1000 ms) has elapsed
LteConnectWake ==
    /\ At("lte_connect", "poll_sleep")
    /\ SetTask(lte_connect_poll(Task, get_network_registration_state))
    /\ UNCHANGED <<modem_state, panicked, history_vars, static_vars>>

\* the entries of observed
Polled(state) == [ev |-> "poll", state |-> state]
Notified(stat) == [ev |-> "cereg", state |-> stat]

\* LteConnectCopsReturns with a record of the value that the first poll reads
LteConnectCopsReturnsObserved ==
    /\ At("lte_connect", "cops")
    /\ Len(observed) < MaxObserved
    /\ \E ok \in BOOLEAN :
        /\ SetTask(IF ok
                   THEN lte_connect_poll(sendReturned(Task), get_network_registration_state)
                   ELSE Return(sendReturned(Task), ErrAT))
        /\ observed' = IF ok THEN Append(observed, Polled(get_network_registration_state))
                       ELSE observed
    /\ UNCHANGED <<modem_state, panicked, history_vars, urc_script, urc_pos, cell_init,
                   subscribers, modems, handled>>

\* LteConnectWake with a record of the value that the poll reads
LteConnectWakeObserved ==
    /\ At("lte_connect", "poll_sleep")
    /\ Len(observed) < MaxObserved
    /\ SetTask(lte_connect_poll(Task, get_network_registration_state))
    /\ observed' = Append(observed, Polled(get_network_registration_state))
    /\ UNCHANGED <<modem_state, panicked, history_vars, urc_script, urc_pos, cell_init,
                   subscribers, modems, handled>>

\* one iteration of UrcHandler::run for a +CEREG message, with a record of the
\* value it stores
UrcHandlerRunCeregObserved ==
    /\ Subscribed
    /\ Len(observed) < MaxObserved
    /\ \E msg \in [urc : {"NetworkRegistrationStatus"},
                    stat : {"NotSearching", "Searching", "RegisteredHome",
                            "RegisteredRoaming"}] :
        /\ HandleUrc(msg)
        /\ RecordUrc(msg)
        /\ observed' = Append(observed, Notified(msg.stat))
    /\ UNCHANGED <<task_vars, panicked, urc_script, urc_pos, cell_init, subscribers, modems,
                   handled>>

(***************************************************************************)
(* Modem::lte_disconnect.                                                  *)
(***************************************************************************)
CallLteDisconnect ==
    /\ Idle
    /\ SetTask(lte_disconnect(Call(NoArgs)))
    /\ mqtt_window' = <<>> /\ fix_window' = <<>>
    /\ UNCHANGED <<modem_state, panicked, static_vars>>

\* set_op_state(Minimum).await? returns; the first test of the loop follows
LteDisconnectCfunReturns ==
    /\ At("lte_disconnect", "cfun")
    /\ \E ok \in BOOLEAN :
        SetTask(IF ok
                THEN lte_disconnect_poll(sendReturned(Task), get_network_registration_state)
                ELSE Return(sendReturned(Task), ErrAT))
    /\ UNCHANGED <<modem_state, panicked, history_vars, static_vars>>

\* Timer::after(100 ms) has elapsed
LteDisconnectWake ==
    /\ At("lte_disconnect", "poll_sleep")
    /\ SetTask(lte_disconnect_poll(Task, get_network_registration_state))
    /\ UNCHANGED <<modem_state, panicked, history_vars, static_vars>>

(***************************************************************************)
(* Clock::from_str.  A string is a sequence of one-character strings; a    *)
(* character takes one byte, or more when it is not ASCII.                 *)
(***************************************************************************)
DigitChars == <<"0", "1", "2", "3", "4", "5", "6", "7", "8", "9">>
IsDigit(c) == \E i \in 1..10 : DigitChars[i] = c
DigitValue(c) == (CHOOSE i \in 1..10 : DigitChars[i] = c) - 1

\* char::len_utf8, for the characters strings are written with here
len_utf8(c) == IF c = "é" THEN 2 ELSE IF c = "€" THEN 3 ELSE 1

\* str::len: the length in bytes
RECURSIVE str_len(_)
str_len(s) == IF s = <<>> THEN 0 ELSE len_utf8(s[1]) + str_len(Tail(s))

\* str::is_char_boundary: does a character of s, or its end, start at byte index?
is_char_boundary(s, index) == \E k \in 0..Len(s) : str_len(SubSeq(s, 1, k)) = index

\* the number of characters of s before the char boundary at byte index
CharsBefore(s, index) == CHOOSE k \in 0..Len(s) : str_len(SubSeq(s, 1, k)) = index

\* &s[from..to] and &s[from..] on char boundaries
ByteSlice(s, from, to) == SubSeq(s, CharsBefore(s, from) + 1, CharsBefore(s, to))
ByteSliceFrom(s, from) == SubSeq(s, CharsBefore(s, from) + 1, Len(s))

I32_MAX == 2147483647
I32_MIN == -I32_MAX - 1

RECURSIVE DecimalValue(_)
DecimalValue(cs) ==
    IF cs = <<>> THEN 0
    ELSE DecimalValue(SubSeq(cs, 1, Len(cs) - 1)) * 10 + DigitValue(cs[Len(cs)])

RECURSIVE StripZeros(_)
StripZeros(cs) == IF Len(cs) > 1 /\ cs[1] = "0" THEN StripZeros(Tail(cs)) ELSE cs

\* str::parse::<i32>: an optional sign, then one or more digits, within i32
parse_i32(cs) ==
    LET signed == cs # <<>> /\ cs[1] \in {"+", "-"}
        negative == signed /\ cs[1] = "-"
        digits == IF signed THEN Tail(cs) ELSE cs
        wellformed == digits # <<>> /\ \A i \in 1..Len(digits) : IsDigit(digits[i])
        sig == StripZeros(digits)
        \* the magnitude without its last digit, and that digit
        front == DecimalValue(SubSeq(sig, 1, Len(sig) - 1))
        last == DigitValue(sig[Len(sig)])
        limit == IF negative THEN 8 ELSE 7
        fits == \/ Len(sig) < 10
                \/ Len(sig) = 10 /\ (front < I32_MAX \div 10
                                     \/ (front = I32_MAX \div 10 /\ last <= limit))
    IN  IF ~wellformed \/ ~fits THEN [ok |-> FALSE, v |-> 0]
        ELSE IF negative THEN [ok |-> TRUE, v |-> (-front) * 10 - last]
        ELSE [ok |-> TRUE, v |-> front * 10 + last]

\* a * k in i32 arithmetic without overflow checks (0 < k < 2^15), by 16-bit halves
WrappingMul(a, k) ==
    LET lo == (a % 65536) * k
        hi == ((a \div 65536) * k + lo \div 65536) % 65536
        signedHi == IF hi >= 32768 THEN hi - 65536 ELSE hi
    IN  signedHi * 65536 + (lo % 65536)

\* does a * k leave i32?
MulOverflows(a, k) == a > I32_MAX \div k \/ a < -(I32_MAX \div k) - (IF (I32_MAX % k) = k - 1 THEN 1 ELSE 0)

IsLeapYear(y) == (y % 4 = 0 /\ y % 100 # 0) \/ y % 400 = 0
DaysInMonth(y, m) ==
    IF m = 2 THEN (IF IsLeapYear(y) THEN 29 ELSE 28)
    ELSE IF m \in {4, 6, 9, 11} THEN 30 ELSE 31

\* days from 1970-01-01 to the civil date y-m-d (proleptic Gregorian)
DaysFromCivil(y, m, d) ==
    LET yy == IF m <= 2 THEN y - 1 ELSE y
        era == yy \div 400
        yoe == yy - era * 400
        mp == IF m > 2 THEN m - 3 ELSE m + 9
        doy == (153 * mp + 2) \div 5 + d - 1
        doe == yoe * 365 + yoe \div 4 - yoe \div 100 + doy
    IN  era * 146097 + doe - 719468

\* DateTime::strptime("%y/%m/%d,%H:%M:%S", date_time_str): two digits per field,
\* %y 69..99 is 1969..1999 and 00..68 is 2000..2068
strptime(cs) ==
    LET two(i) == DigitValue(cs[i]) * 10 + DigitValue(cs[i + 1])
        shape == /\ Len(cs) = 17
                 /\ \A i \in {1, 2, 4, 5, 7, 8, 10, 11, 13, 14, 16, 17} : IsDigit(cs[i])
                 /\ cs[3] = "/" /\ cs[6] = "/" /\ cs[9] = ","
                 /\ cs[12] = ":" /\ cs[15] = ":"
        year == IF two(1) >= 69 THEN 1900 + two(1) ELSE 2000 + two(1)
    IN  IF shape /\ two(4) \in 1..12 /\ two(7) \in 1..DaysInMonth(year, two(4))
                 /\ two(10) <= 23 /\ two(13) <= 59 /\ two(16) <= 59
        THEN [ok |-> TRUE,
              secs |-> DaysFromCivil(year, two(4), two(7)) * 86400
                       + two(10) * 3600 + two(13) * 60 + two(16)]
        ELSE [ok |-> FALSE, secs |-> 0]

\* Offset::from_seconds accepts -25:59:59 ..= +25:59:59
OFFSET_MAX_SECONDS == 93599

ClockOk(ts, off) == [kind |-> "Ok", time |-> [timestamp |-> ts, offset |-> off]]
ClockInvalidFormat == [kind |-> "Err", time |-> NoClock]
ClockPanic == [kind |-> "Panic", time |-> NoClock]
UNIX_EPOCH_UTC == [timestamp |-> 0, offset |-> 0]

\* faulty variant: an instant before the threshold is returned as it is
from_str_offset_NoThreshold(date_time_str, offset_secs) ==
    LET dt == strptime(date_time_str)
    IN  IF offset_secs < -OFFSET_MAX_SECONDS \/ offset_secs > OFFSET_MAX_SECONDS
        THEN ClockPanic
        ELSE IF ~dt.ok THEN ClockInvalidFormat
        ELSE ClockOk(dt.secs - offset_secs, offset_secs)

\* the rest of from_str once offset_secs is known
from_str_offset(date_time_str, offset_secs) ==
    LET dt == strptime(date_time_str)
        timestamp == dt.secs - offset_secs
    IN  IF offset_secs < -OFFSET_MAX_SECONDS \/ offset_secs > OFFSET_MAX_SECONDS
        THEN ClockPanic                                \* Offset::from_seconds(..).unwrap()
        ELSE IF ~dt.ok THEN ClockInvalidFormat
        ELSE IF timestamp < MODEM_MIN_VALID_TIMESTAMP
             THEN [kind |-> "Ok", time |-> UNIX_EPOCH_UTC]
             ELSE ClockOk(timestamp, offset_secs)

\* faulty variant: the sign of the offset is not looked at
from_str_IgnoresSign(s) ==
    IF str_len(s) < 20 THEN {ClockInvalidFormat}
    ELSE IF ~is_char_boundary(s, 17) THEN {ClockPanic}
    ELSE IF Len(s) < 18 THEN {ClockInvalidFormat}
    ELSE IF ~is_char_boundary(s, 18) THEN {ClockPanic}
    ELSE LET q == parse_i32(ByteSliceFrom(s, 18))
             overflow == MulOverflows(q.v, 15) \/ MulOverflows(WrappingMul(q.v, 15), 60)
             offset_secs == WrappingMul(WrappingMul(q.v, 15), 60)
         IN  IF ~q.ok THEN {ClockInvalidFormat}
             ELSE IF overflow
                  THEN {ClockPanic, from_str_offset(ByteSlice(s, 0, 17), offset_secs)}
             ELSE {from_str_offset(ByteSlice(s, 0, 17), offset_secs)}

\* Clock::from_str: the set of outcomes.  s is sliced by byte, &s[0..17] and
\* s[18..], and a slice that does not fall on a char boundary panics; the sign is
\* the 18th character.  There is one outcome, unless the i32 arithmetic of the
\* offset overflows: then a panic in a build with overflow checks, the wrapped
\* value in a build without.
from_str(s) ==
    IF str_len(s) < 20 THEN {ClockInvalidFormat}
    ELSE IF ~is_char_boundary(s, 17) THEN {ClockPanic}         \* &s[0..17]
    ELSE IF Len(s) < 18 THEN {ClockInvalidFormat}              \* s.chars().nth(17)
    ELSE IF ~is_char_boundary(s, 18) THEN {ClockPanic}         \* s[18..]
    ELSE LET date_time_str == ByteSlice(s, 0, 17)
             tz_sign == s[18]
             q == parse_i32(ByteSliceFrom(s, 18))
             \* -tz_offset_q overflows for i32::MIN only, and wraps to itself
             negOverflow == tz_sign = "-" /\ q.v = I32_MIN
             tz_offset_q == IF tz_sign = "-" /\ ~negOverflow THEN -q.v ELSE q.v
             overflow == \/ negOverflow
                         \/ MulOverflows(tz_offset_q, 15)
                         \/ MulOverflows(WrappingMul(tz_offset_q, 15), 60)
             offset_secs == WrappingMul(WrappingMul(tz_offset_q, 15), 60)
         IN  IF ~q.ok THEN {ClockInvalidFormat}
             ELSE IF overflow THEN {ClockPanic, from_str_offset(date_time_str, offset_secs)}
             ELSE {from_str_offset(date_time_str, offset_secs)}

\* the clock strings the modelled modem answers +CCLK? with
TwoDigits(n) == <<DigitChars[(n \div 10) + 1], DigitChars[(n % 10) + 1]>>
ClockString(yy, mo, dd, hh, mi, ss, sign, qq) ==
    TwoDigits(yy) \o <<"/">> \o TwoDigits(mo) \o <<"/">> \o TwoDigits(dd) \o <<",">>
    \o TwoDigits(hh) \o <<":">> \o TwoDigits(mi) \o <<":">> \o TwoDigits(ss)
    \o <<sign>> \o TwoDigits(qq)

ClockResponses ==
    { ClockString(24, 5, 30, 13, 22, 45, "+", 8),    \* the example of the source
      ClockString(20, 1, 1, 0, 0, 0, "+", 0),        \* before 2023: invalid
      ClockString(70, 1, 1, 0, 0, 0, "+", 0),        \* the modem's reset value
      ClockString(22, 12, 31, 23, 59, 59, "+", 0),   \* one second before the threshold
      ClockString(23, 1, 1, 0, 0, 0, "+", 0),        \* the threshold
      ClockString(23, 1, 1, 0, 0, 0, "+", 4),        \* 2022-12-31T23:00:00Z
      ClockString(22, 12, 31, 23, 0, 0, "-", 4),     \* 2023-01-01T00:00:00Z
      \* 104 quarters of an hour: outside what Offset::from_seconds accepts
      SubSeq(ClockString(24, 5, 30, 13, 22, 45, "+", 8), 1, 17) \o <<"+", "1", "0", "4">>,
      \* byte 18 is inside a character
      SubSeq(ClockString(24, 5, 30, 13, 22, 45, "+", 8), 1, 17) \o <<"é", "0", "8">> }

(***************************************************************************)
(* Modem::get_time.                                                        *)
(***************************************************************************)
\* what send(&GetClock).await can do: return an AT error of the transport, or
\* what deserializing the answer gives (a parse error is an AT error too); a
\* panic of Clock::from_str is a panic of the task inside send
GetClockOutcomes ==
    {[kind |-> "Err", time |-> NoClock]}
    \cup UNION { from_str(s) : s \in ClockResponses }

\* faulty variant: the clock is synchronized whatever the first reading is
get_time_first_clock_AlwaysSync(t, time) ==
    lte_connect(Goto([t EXCEPT !.clock = time, !.readings = Append(@, time)], "lte_connect"))

\* `let mut clock = self.send(&GetClock).await?` returned Ok(time)
get_time_first_clock(t, time) ==
    LET t1 == [t EXCEPT !.clock = time, !.readings = Append(@, time)]
    IN  IF time.timestamp = 0
        THEN lte_connect(Goto(t1, "lte_connect"))
        ELSE Return(t1, Ok(time))

\* faulty variant: the loop does not break at a valid reading
get_time_retry_clock_NoBreak(t, time) ==
    LET t1 == [t EXCEPT !.clock = time, !.readings = Append(@, time)]
    IN  IF t.retries >= GET_TIME_RETRIES
        THEN lte_disconnect(Goto(t1, "lte_disconnect"))
        ELSE Sleep([t1 EXCEPT !.retries = @ + 1,
                              !.trace = Append(@, Delay(GET_TIME_RETRY_MS))],
                   "retry_sleep", GET_TIME_RETRY_MS)

\* `clock = self.send(&GetClock).await?` returned Ok(time) inside the loop
get_time_retry_clock(t, time) ==
    LET t1 == [t EXCEPT !.clock = time, !.readings = Append(@, time)]
    IN  IF time.timestamp # 0 \/ t.retries >= GET_TIME_RETRIES
        THEN lte_disconnect(Goto(t1, "lte_disconnect"))
        ELSE Sleep([t1 EXCEPT !.retries = @ + 1,
                              !.trace = Append(@, Delay(GET_TIME_RETRY_MS))],
                   "retry_sleep", GET_TIME_RETRY_MS)

\* faulty variant: the radio is switched off before the error is returned
get_time_retry_clock_err_Disconnects(t) == lte_disconnect(Goto(t, "lte_disconnect"))

\* `clock = self.send(&GetClock).await?` returned Err inside the loop: the `?`
\* returns the error from get_time
get_time_retry_clock_err(t) == Return(t, ErrAT)

CallGetTime ==
    /\ Idle
    /\ SetTask(get_time(Call(NoArgs)))
    /\ mqtt_window' = <<>> /\ fix_window' = <<>>
    /\ UNCHANGED <<modem_state, panicked, static_vars>>

GetTimeFirstClockReturns ==
    /\ At("get_time", "clock0")
    /\ \E r \in GetClockOutcomes :
        /\ SetTask(CASE r.kind = "Ok" -> get_time_first_clock(sendReturned(Task), r.time)
                     [] r.kind = "Err" -> Return(sendReturned(Task), ErrAT)
                     [] OTHER -> sendPanicked(Task))
        /\ panicked' = (r.kind = "Panic")
    /\ UNCHANGED <<modem_state, history_vars, static_vars>>

\* Timer::after(500 ms) has elapsed
GetTimeRetryWake ==
    /\ At("get_time", "retry_sleep")
    /\ SetTask(send(Task, Cmd_GetClock, "clock_retry"))
    /\ UNCHANGED <<modem_state, panicked, history_vars, static_vars>>

GetTimeRetryClockReturns ==
    /\ At("get_time", "clock_retry")
    /\ \E r \in GetClockOutcomes :
        /\ SetTask(CASE r.kind = "Ok" -> get_time_retry_clock(sendReturned(Task), r.time)
                     [] r.kind = "Err" -> get_time_retry_clock_err(sendReturned(Task))
                     [] OTHER -> sendPanicked(Task))
        /\ panicked' = (r.kind = "Panic")
    /\ UNCHANGED <<modem_state, history_vars, static_vars>>

(***************************************************************************)
(* Modem::get_gnss_fix.                                                    *)
(***************************************************************************)
\* faulty variant: a latched value survives the reset
Signal_reset_Keeps(slot) == slot

\* Signal::reset
Signal_reset(slot) == <<>>
\* Signal::wait polled: is a value latched?
Signal_ready(slot) == slot # <<>>

\* get_gnss_fix, from the reset to the first suspension point
get_gnss_fix(t) ==
    send([t EXCEPT !.stack = <<Frame("get_gnss_fix", "start")>> \o @,
                   !.pending_fix = RecordReset(@)],
         Cmd_ProgramGnss("Single"), "program")

\* faulty variant: the wait only sees what is signalled after it has started
get_gnss_fix_wait_FromNow(t, slot) ==
    IF Signal_ready(slot) /\ Top(t).pc = "wait"
    THEN Return([t EXCEPT !.pending_fix = <<>>], Ok(slot[1]))
    ELSE Goto(t, "wait")

\* with_timeout(180 s, fix_subscriber.wait()) is polled with `slot` in the signal
get_gnss_fix_wait(t, slot) ==
    IF Signal_ready(slot)
    THEN Return([t EXCEPT !.pending_fix = <<>>], Ok(slot[1]))
    ELSE Goto(t, "wait")

\* faulty variant: the programmed fix is not cancelled
get_gnss_fix_timeout_NoStop(t) == Return(t, ErrTimeout)

\* the 180 s have elapsed with nothing latched
get_gnss_fix_timeout(t) == send(t, Cmd_ProgramGnss("Stop"), "stop")

CallGetGnssFix ==
    /\ Idle
    /\ fix_subscriber' = Signal_reset(fix_subscriber)
    /\ SetTask(get_gnss_fix(Call(NoArgs)))
    /\ mqtt_window' = <<>> /\ fix_window' = <<>>
    /\ UNCHANGED <<reg_state, mqtt_connected, panicked, static_vars>>

\* send(ProgramGnss{Single}).await? returns; the wait is polled at once
GnssProgramReturns ==
    /\ At("get_gnss_fix", "program")
    /\ \E ok \in BOOLEAN :
        IF ok
        THEN /\ SetTask(get_gnss_fix_wait(sendReturned(Task), fix_subscriber))
             /\ fix_subscriber' = <<>>
        ELSE /\ SetTask(Return(sendReturned(Task), ErrAT))
             /\ UNCHANGED fix_subscriber
    /\ UNCHANGED <<reg_state, mqtt_connected, panicked, history_vars, static_vars>>

\* the task is woken by fix_subscriber.signal and takes the value
GnssWaitSignalled ==
    /\ At("get_gnss_fix", "wait")
    /\ Signal_ready(fix_subscriber)
    /\ SetTask(get_gnss_fix_wait(Task, fix_subscriber))
    /\ fix_subscriber' = <<>>
    /\ UNCHANGED <<reg_state, mqtt_connected, panicked, history_vars, static_vars>>

\* the task is woken by the timer of with_timeout
GnssWaitTimeout ==
    /\ At("get_gnss_fix", "wait")
    /\ ~Signal_ready(fix_subscriber)
    /\ SetTask(get_gnss_fix_timeout(Task))
    /\ UNCHANGED <<modem_state, panicked, history_vars, static_vars>>

\* send(ProgramGnss{Stop}).await? returns
GnssStopReturns ==
    /\ At("get_gnss_fix", "stop")
    /\ \E ok \in BOOLEAN :
        SetTask(Return(sendReturned(Task), IF ok THEN ErrTimeout ELSE ErrAT))
    /\ UNCHANGED <<modem_state, panicked, history_vars, static_vars>>

(***************************************************************************)
(* Modem::mqtt_connect.                                                    *)
(***************************************************************************)
Hosts == {"broker"}
\* Option<u32>: <<>> is None, <<p>> is Some(p)
Ports == {<<>>, <<8883>>}

\* faulty variant: Connect is sent without registering first
mqtt_connect_Unregistered(t) ==
    mqtt_connect_send([t EXCEPT !.stack = <<Frame("mqtt_connect", "lte_connect")>> \o @])

\* mqtt_connect, from its call to the first suspension point
mqtt_connect(t) ==
    lte_connect([t EXCEPT !.stack = <<Frame("mqtt_connect", "lte_connect")>> \o @])

\* `match connected.rc`
mqtt_connect_finish(t, connected) ==
    IF connected.rc = "Success"
    THEN Return(t, Ok(Unit))
    ELSE Return(t, ErrMQTT(connected.rc))

\* with_timeout(30 s, mqtt_connected.wait()) is polled with `slot` in the signal
mqtt_connect_wait(t, slot) ==
    IF Signal_ready(slot)
    THEN mqtt_connect_finish([t EXCEPT !.pending_mqtt = <<>>], slot[1])
    ELSE Goto(t, "wait")

CallMqttConnect ==
    /\ Idle
    /\ \E host \in Hosts, port \in Ports :
        SetTask(mqtt_connect(Call([host |-> host, port |-> port])))
    /\ mqtt_window' = <<>> /\ fix_window' = <<>>
    /\ UNCHANGED <<modem_state, panicked, static_vars>>

\* send(mqtt::Connect).await? returns; the wait is polled at once
MqttConnectReturns ==
    /\ At("mqtt_connect", "connect")
    /\ \E ok \in BOOLEAN :
        IF ok
        THEN /\ SetTask(mqtt_connect_wait(sendReturned(Task), mqtt_connected))
             /\ mqtt_connected' = <<>>
        ELSE /\ SetTask(Return(sendReturned(Task), ErrAT))
             /\ UNCHANGED mqtt_connected
    /\ UNCHANGED <<reg_state, fix_subscriber, panicked, history_vars, static_vars>>

\* the task is woken by mqtt_connected.signal and takes the value
MqttWaitSignalled ==
    /\ At("mqtt_connect", "wait")
    /\ Signal_ready(mqtt_connected)
    /\ SetTask(mqtt_connect_wait(Task, mqtt_connected))
    /\ mqtt_connected' = <<>>
    /\ UNCHANGED <<reg_state, fix_subscriber, panicked, history_vars, static_vars>>

\* the task is woken by the timer of with_timeout: `.await?` returns Err(Timeout)
MqttWaitTimeout ==
    /\ At("mqtt_connect", "wait")
    /\ ~Signal_ready(mqtt_connected)
    /\ SetTask(Return(Task, ErrTimeout))
    /\ UNCHANGED <<modem_state, panicked, history_vars, static_vars>>

(***************************************************************************)
(* Modem::nvm_write.                                                       *)
(***************************************************************************)
DataTypes == {"Certificate", "Privatekey"}
U8 == 0..255
Bytes == {0, 255}
Payloads == UNION { [1..n -> Bytes] : n \in 0..MaxDataLen }

\* faulty variant: index 10 is not treated as reserved
nvm_write_assert_7to9(index) == ~(index \in 0..4) /\ ~(index \in 7..9)

\* the assert! of nvm_write
nvm_write_assert(index) == ~(index \in 0..4) /\ ~(index \in 7..10)

\* faulty variant: the payload follows the prepare command without awaiting its response
nvm_write_Unprepared(t) ==
    send(send([t EXCEPT !.stack = <<Frame("nvm_write", "start")>> \o @],
              Cmd_PrepareWrite(t.args.data_type, t.args.index, Len(t.args.data)), "prepare"),
         Cmd_Write(t.args.data), "write")

\* nvm_write after the assertion, to the first suspension point
nvm_write(t) ==
    send([t EXCEPT !.stack = <<Frame("nvm_write", "start")>> \o @],
         Cmd_PrepareWrite(t.args.data_type, t.args.index, Len(t.args.data)), "prepare")

CallNvmWrite ==
    /\ Idle
    /\ \E data_type \in DataTypes, index \in U8, data \in Payloads :
        LET t == Call([data_type |-> data_type, index |-> index, data |-> data])
        IN  IF nvm_write_assert(index)
            THEN SetTask(nvm_write(t)) /\ UNCHANGED panicked
            ELSE SetTask(t) /\ panicked' = TRUE
    /\ mqtt_window' = <<>> /\ fix_window' = <<>>
    /\ UNCHANGED <<modem_state, static_vars>>

\* send(nvm::PrepareWrite).await? returns
NvmPrepareReturns ==
    /\ At("nvm_write", "prepare")
    /\ \E ok \in BOOLEAN :
        SetTask(IF ok
                THEN send(sendReturned(Task), Cmd_Write(args.data), "write")
                ELSE Return(sendReturned(Task), ErrAT))
    /\ UNCHANGED <<modem_state, panicked, history_vars, static_vars>>

\* send(nvm::Write).await? returns
NvmWriteReturns ==
    /\ At("nvm_write", "write")
    /\ \E ok \in BOOLEAN :
        SetTask(Return(sendReturned(Task), IF ok THEN Ok(Unit) ELSE ErrAT))
    /\ UNCHANGED <<modem_state, panicked, history_vars, static_vars>>

(***************************************************************************)
(* Modem::begin.                                                           *)
(***************************************************************************)
Cmd_ConfigureCMEErrorReports(typ) == [ev |-> "ConfigureCMEErrorReports", typ |-> typ]
Cmd_ConfigureCEREGReports(typ) == [ev |-> "ConfigureCEREGReports", typ |-> typ]
BeginReturned(kind) == [ev |-> "return", kind |-> kind]

\* a command of begin is passed to the transport
begin_send(t, cmd, pc) == send([t EXCEPT !.begun = Append(@, cmd)], cmd, pc)

\* begin returns r
begin_return(t, r) == Return([t EXCEPT !.begun = Append(@, BeginReturned(r.kind))], r)

\* faulty variant: the Modem does not remember that it was configured
begin_configured_Forgotten(t) == begin_return(t, Ok(Unit))

\* begin after both commands were acknowledged
begin_configured(t) == begin_return([t EXCEPT !.initialized = TRUE], Ok(Unit))

\* faulty variant: a begin that follows a failed one goes on with +CEREG=1
begin_SkipsCmee(t) ==
    LET t1 == [t EXCEPT !.stack = <<Frame("begin", "start")>> \o @]
    IN  IF t.initialized
        THEN begin_return(t1, Ok(Unit))
        ELSE IF t.begun # <<>>
             THEN begin_send(t1, Cmd_ConfigureCEREGReports("Enabled"), "cereg")
             ELSE begin_send(t1, Cmd_ConfigureCMEErrorReports("Numeric"), "cmee")

\* begin, from its call to the first suspension point or to its early return
begin(t) ==
    LET t1 == [t EXCEPT !.stack = <<Frame("begin", "start")>> \o @]
    IN  IF t.initialized
        THEN begin_return(t1, Ok(Unit))
        ELSE begin_send(t1, Cmd_ConfigureCMEErrorReports("Numeric"), "cmee")

CallBegin ==
    /\ Idle
    /\ Len(begun) <= MaxBeginLog
    /\ SetTask(begin(Call(NoArgs)))
    /\ mqtt_window' = <<>> /\ fix_window' = <<>>
    /\ UNCHANGED <<modem_state, panicked, static_vars>>

\* send(&ConfigureCMEErrorReports).await? returns
BeginCmeeReturns ==
    /\ At("begin", "cmee")
    /\ \E ok \in BOOLEAN :
        SetTask(IF ok
                THEN begin_send(sendReturned(Task), Cmd_ConfigureCEREGReports("Enabled"), "cereg")
                ELSE begin_return(sendReturned(Task), ErrAT))
    /\ UNCHANGED <<modem_state, panicked, history_vars, static_vars>>

\* send(&ConfigureCEREGReports).await? returns
BeginCeregReturns ==
    /\ At("begin", "cereg")
    /\ \E ok \in BOOLEAN :
        SetTask(IF ok
                THEN begin_configured(sendReturned(Task))
                ELSE begin_return(sendReturned(Task), ErrAT))
    /\ UNCHANGED <<modem_state, panicked, history_vars, static_vars>>

(***************************************************************************)
(* Modem::check_assistance_data and Modem::update_gnss_asistance.          *)
(***************************************************************************)
GnssAssitanceType == {"Almanac", "RealTimeEphemeris", "PredictedEphemeris"}
Bool == {"True", "False"}
TimesToUpdate == {-1, 0, 1}

\* the records of a +LPGNSSASSISTANCE? response, as check_assistance_data reads them
GnssAsssitance == [typ : GnssAssitanceType, available : Bool, time_to_update : TimesToUpdate]

\* heapless::Vec<GnssAsssitance, 3>
AllAssistanceResponses == UNION { [1..n -> GnssAsssitance] : n \in 0..3 }

\* faulty variant: data that is still usable for exactly 0 s counts as fresh
needs_update_Strict(available, time_to_update) ==
    IF available = "True" THEN time_to_update < 0 ELSE TRUE

\* the two inner matches on `available`
needs_update(available, time_to_update) ==
    IF available = "True" THEN time_to_update <= 0 ELSE TRUE

\* the for loop of check_assistance_data over the records of the response
RECURSIVE check_assistance_loop(_, _)
check_assistance_loop(t, data) ==
    IF data = <<>> THEN t
    ELSE LET r == Head(data)
             need == needs_update(r.available, r.time_to_update)
         IN  check_assistance_loop(
                 CASE r.typ = "Almanac" -> [t EXCEPT !.update_almanac = need]
                   [] r.typ = "RealTimeEphemeris" -> [t EXCEPT !.update_ephemeris = need]
                   [] r.typ = "PredictedEphemeris" -> t,
                 Tail(data))

\* faulty variant: the flags of the earlier check are kept as the starting point
check_assistance_data_response_KeepsFlags(t, data) ==
    Return(check_assistance_loop([t EXCEPT !.assistance = IF @ = <<>> THEN <<data>>
                                                          ELSE <<@[1], data>>], data),
           Ok(Unit))

\* check_assistance_data after send(&GetGnssAssitance).await? returned Ok(data)
check_assistance_data_response(t, data) ==
    Return(check_assistance_loop([t EXCEPT !.update_almanac = FALSE,
                                           !.update_ephemeris = FALSE,
                                           !.assistance = IF @ = <<>> THEN <<data>>
                                                          ELSE <<@[1], data>>], data),
           Ok(Unit))

Assistance(typ, available, time_to_update) ==
    [typ |-> typ, available |-> available, time_to_update |-> time_to_update]

\* the responses the modelled modem gives while update_gnss_asistance runs
AssistanceResponses ==
    { <<Assistance("Almanac", "True", 1), Assistance("RealTimeEphemeris", "True", 1),
        Assistance("PredictedEphemeris", "False", 0)>>,
      <<Assistance("Almanac", "False", 0), Assistance("RealTimeEphemeris", "True", 1),
        Assistance("PredictedEphemeris", "True", 1)>>,
      <<Assistance("Almanac", "True", 1), Assistance("RealTimeEphemeris", "True", 0),
        Assistance("PredictedEphemeris", "True", 1)>>,
      <<Assistance("Almanac", "True", -1), Assistance("RealTimeEphemeris", "False", 1),
        Assistance("PredictedEphemeris", "True", 1)>> }

\* update_gnss_asistance, from its call to the first suspension point
update_gnss_asistance(t) ==
    lte_disconnect([t EXCEPT !.stack = <<Frame("update_gnss_asistance", "lte_disconnect0")>> \o @])

CallUpdateGnssAsistance ==
    /\ Idle
    /\ SetTask(update_gnss_asistance(Call(NoArgs)))
    /\ mqtt_window' = <<>> /\ fix_window' = <<>>
    /\ UNCHANGED <<modem_state, panicked, static_vars>>

\* send(&GetGnssAssitance).await? returns, with one of the given responses
AssistanceGetReturnsFrom(responses) ==
    /\ At("check_assistance_data", "get")
    /\ \/ SetTask(Return(sendReturned(Task), ErrAT))
       \/ \E data \in responses :
            SetTask(check_assistance_data_response(sendReturned(Task), data))
    /\ UNCHANGED <<modem_state, panicked, history_vars, static_vars>>

AssistanceGetReturns == AssistanceGetReturnsFrom(AssistanceResponses)

\* send(&UpdateGnssAssitance{Almanac}).await? returns
UpdateAlmanacReturns ==
    /\ At("update_gnss_asistance", "almanac")
    /\ \E ok \in BOOLEAN :
        SetTask(IF ok
                THEN update_gnss_asistance_ephemeris(sendReturned(Task))
                ELSE Return(sendReturned(Task), ErrAT))
    /\ UNCHANGED <<modem_state, panicked, history_vars, static_vars>>

\* send(&UpdateGnssAssitance{RealTimeEphemeris}).await? returns
UpdateEphemerisReturns ==
    /\ At("update_gnss_asistance", "ephemeris")
    /\ \E ok \in BOOLEAN :
        SetTask(IF ok
                THEN update_gnss_asistance_poll(sendReturned(Task))
                ELSE Return(sendReturned(Task), ErrAT))
    /\ UNCHANGED <<modem_state, panicked, history_vars, static_vars>>

\* Timer::after(10 s) has elapsed: the loop checks the assistance data again
UpdatePollWake ==
    /\ At("update_gnss_asistance", "check_sleep")
    /\ SetTask(check_assistance_data(Goto(Task, "check_loop")))
    /\ UNCHANGED <<modem_state, panicked, history_vars, static_vars>>

(***************************************************************************)
(* Modem::configure_tls_profile.                                           *)
(***************************************************************************)
\* Option<u8> arguments: None, or Some of a certificate / key id
OptionIds == {<<>>, <<0>>, <<19>>}

\* Nullable::from_option
Nullable_from_option(opt) == IF opt = <<>> THEN [nullable |-> "None"]
                             ELSE [nullable |-> "Some", value |-> opt[1]]

Cmd_SslTlsConfigure(sp_id, ca_cert_id, client_cert_id, client_private_key_id) ==
    [ev |-> "ssl_tls::Configure", sp_id |-> sp_id, version |-> "Tls13", cipher_specs |-> <<>>,
     cert_valid_level |-> 7,
     ca_cert_id |-> Nullable_from_option(ca_cert_id),
     client_cert_id |-> Nullable_from_option(client_cert_id),
     client_private_key_id |-> Nullable_from_option(client_private_key_id),
     psk |-> <<>>, psk_identity |-> <<>>, storage_id |-> "NVM", resume |-> "Disabled",
     lifetime |-> 0]

\* faulty variant: profile 0 is accepted too
configure_tls_profile_assert_From0(sp_id) == sp_id \in 0..6

\* the assert! of configure_tls_profile
configure_tls_profile_assert(sp_id) == sp_id \in 1..6

\* configure_tls_profile after the assertion, to the first suspension point
configure_tls_profile(t) ==
    send([t EXCEPT !.stack = <<Frame("configure_tls_profile", "start")>> \o @],
         Cmd_SslTlsConfigure(t.args.sp_id, t.args.ca_cert_id, t.args.client_cert_id,
                             t.args.client_private_key_id),
         "configure")

CallConfigureTlsProfile ==
    /\ Idle
    /\ \E sp_id \in U8, ca \in OptionIds, cert \in OptionIds, key \in OptionIds :
        LET t == Call([sp_id |-> sp_id, ca_cert_id |-> ca, client_cert_id |-> cert,
                       client_private_key_id |-> key])
        IN  IF configure_tls_profile_assert(sp_id)
            THEN SetTask(configure_tls_profile(t)) /\ UNCHANGED panicked
            ELSE SetTask(t) /\ panicked' = TRUE
    /\ mqtt_window' = <<>> /\ fix_window' = <<>>
    /\ UNCHANGED <<modem_state, static_vars>>

\* send(&ssl_tls::Configure).await? returns
TlsConfigureReturns ==
    /\ At("configure_tls_profile", "configure")
    /\ \E ok \in BOOLEAN :
        SetTask(Return(sendReturned(Task), IF ok THEN Ok(Unit) ELSE ErrAT))
    /\ UNCHANGED <<modem_state, panicked, history_vars, static_vars>>

(***************************************************************************)
(* Modem::new and the static cell that holds the ModemState.  The cell is a *)
(* static item of the function, one for the whole program.                 *)
(***************************************************************************)
\* faulty variant: the cell accepts a value again
StaticCell_init_Again(cell) == [ok |-> TRUE]

\* StaticCell::init: stores the value, and panics if the cell already holds one
StaticCell_init(cell) == [ok |-> ~cell]

NewReturned(kind) == [op |-> "new", kind |-> kind, val |-> Unit]

\* Modem::new(client, urc_chan), called anywhere in the program
ModemNew ==
    /\ ~panicked
    /\ IF StaticCell_init(cell_init).ok
       THEN /\ cell_init' = TRUE
            /\ reg_state' = "NotSearching"         \* ModemState::new()
            /\ mqtt_connected' = <<>>
            /\ fix_subscriber' = <<>>
            /\ modems' = modems + 1
            /\ SetTask([Call(NoArgs) EXCEPT !.inflight = 0, !.initialized = FALSE,
                                            !.update_almanac = FALSE,
                                            !.update_ephemeris = FALSE,
                                            !.begun = <<>>, !.pending_mqtt = <<>>,
                                            !.pending_fix = <<>>,
                                            !.result = NewReturned("Ok")])
            /\ UNCHANGED <<panicked, history_vars, urc_script, urc_pos, subscribers, handled,
                           observed>>
       ELSE /\ panicked' = TRUE
            /\ SetTask([Task EXCEPT !.result = NewReturned("Panic")])
            /\ UNCHANGED <<modem_state, history_vars, static_vars>>

\* the Modem handle goes out of scope; the ModemState stays in the cell
ModemDrop ==
    /\ Idle
    /\ modems = 1
    /\ modems' = 0
    /\ UNCHANGED <<modem_state, task_vars, panicked, history_vars, urc_script, urc_pos,
                   cell_init, subscribers, handled, observed>>

(***************************************************************************)
(* Cancellation: the caller drops the future of the operation in progress  *)
(* while it is suspended.  No type of the driver implements Drop, so the   *)
(* locals of the suspended calls go away and nothing else happens.         *)
(***************************************************************************)
Cancelled(op) == [op |-> op, kind |-> "Cancelled", val |-> Unit]

\* faulty variant: dropping the future switches the radio off again
drop_future_RollsBack(t) ==
    [t EXCEPT !.stack = <<>>, !.inflight = 0,
              !.trace = Append(@, Cmd_SetFunctionality("Minimum")),
              !.result = Cancelled(t.stack[Len(t.stack)].fn)]

\* the future of the outermost call is dropped, and the futures it awaits with it
drop_future(t) ==
    [t EXCEPT !.stack = <<>>, !.inflight = 0,
              !.result = Cancelled(t.stack[Len(t.stack)].fn)]

Cancel ==
    /\ stack # <<>>
    /\ ~panicked
    /\ SetTask(drop_future(Task))
    /\ UNCHANGED <<modem_state, panicked, history_vars, static_vars>>

(***************************************************************************)
(* serde_at::to_slice as the AtatCmd derive calls it.  A command line is a *)
(* sequence of bytes, each written as the character it encodes.            *)
(***************************************************************************)
\* SerializeOptions::default(), and what the at_cmd attributes override
SerializeOptions_default == [cmd_prefix |-> <<"A", "T">>, termination |-> <<"\r", "\n">>, value_sep |-> TRUE]

\* an unsigned integer in decimal
RECURSIVE serialize_uint(_)
serialize_uint(n) ==
    IF n < 10 THEN <<DigitChars[n + 1]>>
    ELSE serialize_uint(n \div 10) \o <<DigitChars[(n % 10) + 1]>>

\* a string: quoted
serialize_str(cs) == <<"\"">> \o cs \o <<"\"">>

\* a byte slice: the bytes as they are
serialize_bytes(bs) == bs

\* Option: None writes nothing, Some(v) writes v
serialize_none == <<>>

\* the fields of a struct, separated by commas
RECURSIVE serialize_fields(_)
serialize_fields(tokens) ==
    IF tokens = <<>> THEN <<>>
    ELSE IF Len(tokens) = 1 THEN tokens[1]
    ELSE tokens[1] \o <<",">> \o serialize_fields(Tail(tokens))

to_slice(tokens, cmd, options) ==
    options.cmd_prefix \o cmd
    \o (IF options.value_sep /\ tokens # <<>> THEN <<"=">> ELSE <<>>)
    \o serialize_fields(tokens) \o options.termination

(***************************************************************************)
(* Nullable<T> in a struct of comma-separated fields, written by to_slice  *)
(* and read by serde_at::from_slice.  A field is described by its type     *)
(* ("u8", "i32" or "str") and by whether it is wrapped in Nullable.        *)
(***************************************************************************)
Field(ty, nullable) == [ty |-> ty, nullable |-> nullable]
Nullable_None == [nullable |-> "None"]
Nullable_Some(v) == [nullable |-> "Some", value |-> v]

U8_MAX == 255

\* a signed integer in decimal
serialize_int(n) == IF n < 0 THEN <<"-">> \o serialize_uint(-n) ELSE serialize_uint(n)

serialize_value(ty, v) ==
    CASE ty = "u8" -> serialize_uint(v)
      [] ty = "i32" -> serialize_int(v)
      [] ty = "str" -> serialize_str(v)

\* faulty variant: Nullable::None is written as 0
Nullable_serialize_Zero(n, ty) ==
    IF n = Nullable_None THEN <<"0">> ELSE serialize_value(ty, n.value)

\* impl Serialize for Nullable<T>
Nullable_serialize(n, ty) ==
    IF n = Nullable_None THEN serialize_bytes(<<>>) ELSE serialize_value(ty, n.value)

serialize_struct(schema, value) ==
    [i \in 1..Len(schema) |->
        IF schema[i].nullable THEN Nullable_serialize(value[i], schema[i].ty)
        ELSE serialize_value(schema[i].ty, value[i])]

\* the length of the run of digits that cs starts with
RECURSIVE DigitRun(_)
DigitRun(cs) == IF cs # <<>> /\ IsDigit(cs[1]) THEN 1 + DigitRun(Tail(cs)) ELSE 0

Rest(cs, n) == SubSeq(cs, n + 1, Len(cs))
Parsed(v, rest) == [ok |-> TRUE, v |-> v, rest |-> rest]
NotParsed(rest) == [ok |-> FALSE, v |-> 0, rest |-> rest]

\* deserialize_u8 .. deserialize_u64: a run of digits, within the type
deserialize_unsigned(cs, max) ==
    LET n == DigitRun(cs)
        v == DecimalValue(SubSeq(cs, 1, n))
    IN  IF n = 0 THEN NotParsed(cs)
        ELSE IF v > max THEN NotParsed(Rest(cs, n))
        ELSE Parsed(v, Rest(cs, n))

\* deserialize_i8 .. deserialize_i64: an optional minus, then a run of digits
deserialize_signed(cs, max) ==
    IF cs # <<>> /\ cs[1] = "-"
    THEN LET n == DigitRun(Tail(cs))
             v == DecimalValue(SubSeq(cs, 2, n + 1))
         IN  IF n = 0 THEN NotParsed(Tail(cs))
             ELSE IF v - 1 > max THEN NotParsed(Rest(cs, n + 1))
             ELSE Parsed(-v, Rest(cs, n + 1))
    ELSE deserialize_unsigned(cs, max)

\* the position of the first quote of cs, or 0
RECURSIVE QuoteAt(_)
QuoteAt(cs) ==
    IF cs = <<>> THEN 0
    ELSE IF cs[1] = "\"" THEN 1
    ELSE LET k == QuoteAt(Tail(cs)) IN IF k = 0 THEN 0 ELSE k + 1

\* deserialize_str for heapless::String<N>: a quoted string of at most N bytes
deserialize_string(cs, capacity) ==
    IF cs = <<>> \/ cs[1] # "\"" THEN NotParsed(cs)
    ELSE LET k == QuoteAt(Tail(cs))
         IN  IF k = 0 THEN NotParsed(<<>>)
             ELSE IF k - 1 > capacity THEN NotParsed(Rest(cs, k + 1))
             ELSE Parsed(SubSeq(cs, 2, k), Rest(cs, k + 1))

STRING_CAPACITY == 12

deserialize_value(ty, cs) ==
    CASE ty = "u8" -> deserialize_unsigned(cs, U8_MAX)
      [] ty = "i32" -> deserialize_signed(cs, I32_MAX)
      [] ty = "str" -> deserialize_string(cs, STRING_CAPACITY)

\* impl Deserialize for Nullable<T>: every error of T::deserialize is None
Nullable_deserialize(ty, cs) ==
    LET r == deserialize_value(ty, cs)
    IN  IF r.ok THEN Parsed(Nullable_Some(r.v), r.rest)
        ELSE Parsed(Nullable_None, r.rest)

FromSliceErr == [kind |-> "Err", value |-> <<>>]

\* the fields i.. of the struct, read from cs; a field but the first starts after a comma
RECURSIVE deserialize_struct(_, _, _, _)
deserialize_struct(schema, cs, i, acc) ==
    IF i > Len(schema) THEN [kind |-> "Ok", value |-> acc]
    ELSE IF i > 1 /\ (cs = <<>> \/ cs[1] # ",") THEN FromSliceErr
    ELSE LET at == IF i > 1 THEN Tail(cs) ELSE cs
             r == IF schema[i].nullable THEN Nullable_deserialize(schema[i].ty, at)
                  ELSE deserialize_value(schema[i].ty, at)
         IN  IF ~r.ok THEN FromSliceErr
             ELSE deserialize_struct(schema, r.rest, i + 1, Append(acc, r.v))

from_slice(schema, cs) == deserialize_struct(schema, cs, 1, <<>>)

(***************************************************************************)
(* Enums with textual discriminants: PDPType and ProgramGnssAction.        *)
(***************************************************************************)
PDPType == {"IP", "IPv4V6", "IPv6", "NonIP", "OSPIH", "PPP", "X25"}
ProgramGnssAction == {"Single", "Stop"}

\* faulty variant: the literal is written without its quotes
PDPType_serialize_Unquoted(v) ==
    serialize_bytes(
        CASE v = "IP" -> <<"I", "P">>
          [] v = "IPv4V6" -> <<"I", "P", "V", "4", "V", "6">>
          [] v = "IPv6" -> <<"I", "P", "V", "6">>
          [] v = "NonIP" -> <<"N", "o", "n", "-", "I", "P">>
          [] v = "OSPIH" -> <<"O", "S", "P", "I", "H">>
          [] v = "PPP" -> <<"P", "P", "P">>
          [] v = "X25" -> <<"X", ".", "2", "5">>)

\* impl Serialize for PDPType
PDPType_serialize(v) ==
    serialize_bytes(
        CASE v = "IP" -> <<"\"", "I", "P", "\"">>
          [] v = "IPv4V6" -> <<"\"", "I", "P", "V", "4", "V", "6", "\"">>
          [] v = "IPv6" -> <<"\"", "I", "P", "V", "6", "\"">>
          [] v = "NonIP" -> <<"\"", "N", "o", "n", "-", "I", "P", "\"">>
          [] v = "OSPIH" -> <<"\"", "O", "S", "P", "I", "H", "\"">>
          [] v = "PPP" -> <<"\"", "P", "P", "P", "\"">>
          [] v = "X25" -> <<"\"", "X", ".", "2", "5", "\"">>)

\* impl Serialize for ProgramGnssAction
ProgramGnssAction_serialize(v) ==
    serialize_bytes(
        CASE v = "Single" -> <<"\"", "s", "i", "n", "g", "l", "e", "\"">>
          [] v = "Stop" -> <<"\"", "s", "t", "o", "p", "\"">>)

\* impl Serialize for nvm::types::DataType
DataType_serialize(v) ==
    serialize_bytes(
        CASE v = "Certificate" ->
                <<"\"", "c", "e", "r", "t", "i", "f", "i", "c", "a", "t", "e", "\"">>
          [] v = "Privatekey" ->
                <<"\"", "p", "r", "i", "v", "a", "t", "e", "k", "e", "y", "\"">>)

\* impl Serialize for Reserved
Reserved_serialize == serialize_bytes(<<>>)

\* the declared wire lengths: AtatLen::LEN, and the len of the at_arg of ProgramGnss
PDPType_LEN == 8
DataType_LEN == 12
Reserved_LEN == 1
ProgramGnss_action_len == 8

\* to_slice of a value that is no struct: the value alone, no prefix and no termination
to_slice_value(token) == token

BufferFull == [kind |-> "Err", value |-> "buffer_full"]
Written(n) == [kind |-> "Ok", value |-> n]

\* to_slice into a buffer of cap bytes: the number of bytes written, or an error
\* when the value does not fit
to_slice_into(token, cap) ==
    IF Len(to_slice_value(token)) <= cap THEN Written(Len(to_slice_value(token)))
    ELSE BufferFull

UnknownVariant == [kind |-> "Err", value |-> "unknown_variant"]
Variant(v) == [kind |-> "Ok", value |-> v]

\* PDPTypeVisitor::visit_bytes
PDPType_visit_bytes(v) ==
    CASE v = <<"I", "P">> -> Variant("IP")
      [] v = <<"I", "P", "V", "4", "V", "6">> -> Variant("IPv4V6")
      [] v = <<"I", "P", "V", "6">> -> Variant("IPv6")
      [] v = <<"N", "o", "n", "-", "I", "P">> -> Variant("NonIP")
      [] v = <<"O", "S", "P", "I", "H">> -> Variant("OSPIH")
      [] v = <<"P", "P", "P">> -> Variant("PPP")
      [] v = <<"X", ".", "2", "5">> -> Variant("X25")
      [] OTHER -> UnknownVariant

\* str::as_bytes: the UTF-8 bytes of a string, one to three for each character
RECURSIVE as_bytes(_)
as_bytes(v) ==
    IF v = <<>> THEN <<>>
    ELSE (CASE v[1] = "é" -> <<"0xC3", "0xA9">>
            [] v[1] = "€" -> <<"0xE2", "0x82", "0xAC">>
            [] OTHER -> <<v[1]>>) \o as_bytes(Tail(v))

\* PDPTypeVisitor::visit_str
PDPType_visit_str(v) == PDPType_visit_bytes(as_bytes(v))

\* impl Deserialize for PDPType: deserializer.deserialize_bytes(PDPTypeVisitor)
\* ends in the deserializer's call of the visitor; handed is that call, the
\* method called and the value it is called with. Which bytes of its input a
\* deserializer hands over is its own matter and no part of this impl.
PDPType_deserialize(handed) ==
    IF handed.as = "str" THEN PDPType_visit_str(handed.v)
    ELSE PDPType_visit_bytes(handed.v)

(***************************************************************************)
(* Modem::mqtt_send.                                                       *)
(***************************************************************************)
\* #[at_enum(u8)] Qos
Qos == {"AtMostOnce", "AtLeastOnce", "ExactlyOnce"}
Qos_value(q) ==
    CASE q = "AtMostOnce" -> 0 [] q = "AtLeastOnce" -> 1 [] q = "ExactlyOnce" -> 2

Topics == { <<"t", "/", "x">>, <<"a">> }
MqttBytes == {"h", "i", "\r"}
MqttPayloads ==
    UNION { [1..n -> MqttBytes] : n \in 0..MaxDataLen } \cup { [i \in 1..12 |-> "h"] }

\* #[at_cmd("+SQNSMQTTPUBLISH", NoResponse, termination = "\r")]
PreparePublish_cmd == <<"+", "S", "Q", "N", "S", "M", "Q", "T", "T", "P", "U", "B", "L", "I", "S", "H">>

\* faulty variant: the length field is left out of the command line
Cmd_PreparePublish_NoLength(id, topic, qos, length) ==
    [ev |-> "mqtt::PreparePublish", id |-> id, topic |-> topic, qos |-> qos, length |-> length,
     wire |-> to_slice(<<serialize_uint(id), serialize_str(topic),
                         IF qos = <<>> THEN serialize_none
                         ELSE serialize_uint(Qos_value(qos[1]))>>,
                       PreparePublish_cmd,
                       [SerializeOptions_default EXCEPT !.termination = <<"\r">>])]

Cmd_PreparePublish(id, topic, qos, length) ==
    [ev |-> "mqtt::PreparePublish", id |-> id, topic |-> topic, qos |-> qos, length |-> length,
     wire |-> to_slice(<<serialize_uint(id), serialize_str(topic),
                         IF qos = <<>> THEN serialize_none
                         ELSE serialize_uint(Qos_value(qos[1])),
                         serialize_uint(length)>>,
                       PreparePublish_cmd,
                       [SerializeOptions_default EXCEPT !.termination = <<"\r">>])]

\* #[at_cmd("", NoResponse, cmd_prefix = "", termination = "", value_sep = false)]
Cmd_Publish(payload) ==
    [ev |-> "mqtt::Publish", payload |-> payload,
     wire |-> to_slice(<<serialize_bytes(payload)>>, <<>>,
                       [cmd_prefix |-> <<>>, termination |-> <<>>, value_sep |-> FALSE])]

\* mqtt_send, from its call to the first suspension point
mqtt_send(t) ==
    send([t EXCEPT !.stack = <<Frame("mqtt_send", "start")>> \o @],
         Cmd_PreparePublish(0, t.args.topic, <<t.args.qos>>, Len(t.args.data)), "prepare")

CallMqttSend ==
    /\ Idle
    /\ \E topic \in Topics, qos \in Qos, data \in MqttPayloads :
        SetTask(mqtt_send(Call([topic |-> topic, qos |-> qos, data |-> data])))
    /\ mqtt_window' = <<>> /\ fix_window' = <<>>
    /\ UNCHANGED <<modem_state, panicked, static_vars>>

\* send(mqtt::PreparePublish).await? returns
MqttPreparePublishReturns ==
    /\ At("mqtt_send", "prepare")
    /\ \E ok \in BOOLEAN :
        SetTask(IF ok
                THEN send(sendReturned(Task), Cmd_Publish(args.data), "publish")
                ELSE Return(sendReturned(Task), ErrAT))
    /\ UNCHANGED <<modem_state, panicked, history_vars, static_vars>>

\* send(mqtt::Publish).await? returns
MqttPublishReturns ==
    /\ At("mqtt_send", "publish")
    /\ \E ok \in BOOLEAN :
        SetTask(Return(sendReturned(Task), IF ok THEN Ok(Unit) ELSE ErrAT))
    /\ UNCHANGED <<modem_state, panicked, history_vars, static_vars>>

(***************************************************************************)
(* Modem::urc_handler.                                                     *)
(***************************************************************************)
\* the subscribers the URC channel has room for: the parameter L of
\* UrcChannel<Urc, N, L>, which the program chooses
L == 1

\* PubSubChannel::subscriber: a slot of the channel is taken, if one is free
subscribe(n) == [ok |-> n < L]

\* urc_handler() returns a UrcHandler with a subscription of its own, or panics
\* in unwrap() when the channel has no free slot; it borrows the Modem, so no
\* operation is in progress
CallUrcHandler ==
    /\ Idle
    /\ IF subscribe(subscribers).ok
       THEN subscribers' = subscribers + 1 /\ UNCHANGED panicked
       ELSE panicked' = TRUE /\ UNCHANGED subscribers
    /\ UNCHANGED <<modem_state, task_vars, history_vars, urc_script, urc_pos, cell_init,
                   modems, handled, observed>>

\* the program creates its UrcHandler
FirstUrcHandler == subscribers = 0 /\ CallUrcHandler

(***************************************************************************)
(* The operations of one command: ping, get_operation_mode,                *)
(* set_opeartion_mode, define_pdp_context, set_op_state, set_gnss_config,  *)
(* mqtt_configure and send itself; and mqtt_disconnect.                    *)
(***************************************************************************)
RAT == { "LteM", "NBIoT", "Reserved" }
FunctionalMode == { "Minimum", "Full", "AirplaneMode" }
FixSensitivity == { "Low", "Medium", "High" }

Cmd_AT == [ev |-> "AT"]
Cmd_GetOperatingMode == [ev |-> "GetOperatingMode"]
Cmd_SetOperatingMode(mode) == [ev |-> "SetOperatingMode", mode |-> mode]
Cmd_DefinePDPContext ==
    [ev |-> "pdp::DefinePDPContext", cid |-> 1, pdp_type |-> "IP", apn |-> <<>>,
     pdp_addr |-> <<>>, d_comp |-> "Off", h_comp |-> "Off", ipv4_alloc |-> "NAS",
     request_type |-> "NewOrHandover", pdp_pcscf_discovery_method |-> "Auto",
     for_imcn |-> FALSE, nslpi |-> FALSE, secure_pco |-> FALSE,
     ipv4_mtu_discovery |-> FALSE, local_addr_ind |-> FALSE,
     non_ip_mtu_discovery |-> FALSE]
Cmd_SetGnssConfig(sensitivity) ==
    [ev |-> "SetGnssConfig", location_mode |-> "OnDeviceLocation",
     fix_sensitivity |-> sensitivity, urc_settings |-> "Full", metrics |-> FALSE,
     acquisition_mode |-> "ColdWarmStart", early_abort |-> FALSE]
Cmd_MqttConfigure(client_id, username, password, sp_id) ==
    [ev |-> "mqtt::Configure", id |-> 0, client_id |-> client_id, username |-> username,
     password |-> password, sp_id |-> sp_id]
Cmd_MqttDisconnect == [ev |-> "mqtt::Disconnect", id |-> 0]

\* the values of Option<MqttAuth> and the client ids that mqtt_configure is called with
MqttAuths ==
    { [auth |-> "None"],
      [auth |-> "UsernamePassword", username |-> <<"u">>, password |-> <<"p">>],
      [auth |-> "SecurityProfile", id |-> 1] }
ClientIds == { <<"c">> }

\* the commands that send is called with from outside the driver
SentCommands == { Cmd_SetFunctionality("Minimum"), Cmd_GetClock }

\* each operation, from its call to its only suspension point
ping(t) == send([t EXCEPT !.stack = <<Frame("ping", "start")>> \o @], Cmd_AT, "at")

get_operation_mode(t) ==
    send([t EXCEPT !.stack = <<Frame("get_operation_mode", "start")>> \o @],
         Cmd_GetOperatingMode, "get")

set_opeartion_mode(t) ==
    send([t EXCEPT !.stack = <<Frame("set_opeartion_mode", "start")>> \o @],
         Cmd_SetOperatingMode(t.args.mode), "set")

define_pdp_context(t) ==
    send([t EXCEPT !.stack = <<Frame("define_pdp_context", "start")>> \o @],
         Cmd_DefinePDPContext, "define")

set_op_state(t) ==
    send([t EXCEPT !.stack = <<Frame("set_op_state", "start")>> \o @],
         Cmd_SetFunctionality(t.args.mode), "cfun")

set_gnss_config(t) ==
    send([t EXCEPT !.stack = <<Frame("set_gnss_config", "start")>> \o @],
         Cmd_SetGnssConfig(t.args.sensitivity), "config")

\* `let msg = match auth { ... }`
mqtt_configure_msg(client_id, auth) ==
    CASE auth.auth = "UsernamePassword" ->
            Cmd_MqttConfigure(client_id, auth.username, auth.password, "None")
      [] auth.auth = "SecurityProfile" ->
            Cmd_MqttConfigure(client_id, <<>>, <<>>, auth.id)
      [] OTHER -> Cmd_MqttConfigure(client_id, <<>>, <<>>, "None")

mqtt_configure(t) ==
    send([t EXCEPT !.stack = <<Frame("mqtt_configure", "start")>> \o @],
         mqtt_configure_msg(t.args.client_id, t.args.auth), "configure")

mqtt_disconnect(t) ==
    send([t EXCEPT !.stack = <<Frame("mqtt_disconnect", "start")>> \o @],
         Cmd_MqttDisconnect, "disconnect")

\* send called from outside the driver
send_cmd(t) == send([t EXCEPT !.stack = <<Frame("send", "start")>> \o @], t.args.cmd, "cmd")

\* a top-level call of an operation, given what it does up to its first suspension
CallOperation(started) ==
    /\ Idle
    /\ SetTask(started)
    /\ mqtt_window' = <<>> /\ fix_window' = <<>>
    /\ UNCHANGED <<modem_state, panicked, static_vars>>

\* `self.send(..).await?; Ok(())` of function fn returns
SendReturnsUnit(fn, pc) ==
    /\ At(fn, pc)
    /\ \E ok \in BOOLEAN :
        SetTask(Return(sendReturned(Task), IF ok THEN Ok(Unit) ELSE ErrAT))
    /\ UNCHANGED <<modem_state, panicked, history_vars, static_vars>>

CallPing == CallOperation(ping(Call(NoArgs)))
PingReturns == SendReturnsUnit("ping", "at")

CallGetOperationMode == CallOperation(get_operation_mode(Call(NoArgs)))

\* send(&GetOperatingMode).await? returns: `Ok(res.rat)`, or the error
GetOperationModeReturns ==
    /\ At("get_operation_mode", "get")
    /\ \/ \E rat \in RAT : SetTask(Return(sendReturned(Task), Ok([rat |-> rat])))
       \/ SetTask(Return(sendReturned(Task), ErrAT))
    /\ UNCHANGED <<modem_state, panicked, history_vars, static_vars>>

CallSetOpeartionMode == \E mode \in RAT : CallOperation(set_opeartion_mode(Call([mode |-> mode])))
SetOpeartionModeReturns == SendReturnsUnit("set_opeartion_mode", "set")

CallDefinePdpContext == CallOperation(define_pdp_context(Call(NoArgs)))
DefinePdpContextReturns == SendReturnsUnit("define_pdp_context", "define")

CallSetOpState ==
    \E mode \in FunctionalMode : CallOperation(set_op_state(Call([mode |-> mode])))
SetOpStateReturns == SendReturnsUnit("set_op_state", "cfun")

CallSetGnssConfig ==
    \E sensitivity \in FixSensitivity :
        CallOperation(set_gnss_config(Call([sensitivity |-> sensitivity])))
SetGnssConfigReturns == SendReturnsUnit("set_gnss_config", "config")

CallMqttConfigure ==
    \E client_id \in ClientIds, auth \in MqttAuths :
        CallOperation(mqtt_configure(Call([client_id |-> client_id, auth |-> auth])))
MqttConfigureReturns == SendReturnsUnit("mqtt_configure", "configure")

CallMqttDisconnect == CallOperation(mqtt_disconnect(Call(NoArgs)))

\* send(&mqtt::Disconnect { id: 0 }).await? returns: lte_disconnect is next
MqttDisconnectReturns ==
    /\ At("mqtt_disconnect", "disconnect")
    /\ \E ok \in BOOLEAN :
        SetTask(IF ok
                THEN lte_disconnect(Goto(sendReturned(Task), "lte_disconnect"))
                ELSE Return(sendReturned(Task), ErrAT))
    /\ UNCHANGED <<modem_state, panicked, history_vars, static_vars>>

CallSend == \E cmd \in SentCommands : CallOperation(send_cmd(Call([cmd |-> cmd])))

\* client.send(cmd).await returns the response, or the error mapped into Error;
\* the answer to GetClock is deserialized by Clock::from_str, which may panic
SendReturns ==
    /\ At("send", "cmd")
    /\ IF args.cmd = Cmd_GetClock
       THEN \E r \in GetClockOutcomes :
              /\ SetTask(CASE r.kind = "Ok" -> Return(sendReturned(Task), Ok(r.time))
                           [] r.kind = "Err" -> Return(sendReturned(Task), ErrAT)
                           [] OTHER -> sendPanicked(Task))
              /\ panicked' = (r.kind = "Panic")
       ELSE /\ \E ok \in BOOLEAN :
                SetTask(Return(sendReturned(Task), IF ok THEN Ok(Unit) ELSE ErrAT))
            /\ UNCHANGED panicked
    /\ UNCHANGED <<modem_state, history_vars, static_vars>>

(***************************************************************************)
(* Specifications.                                                         *)
(***************************************************************************)
\* the UrcHandler task and the task that calls the operations of the Modem.
\* begin, nvm_write, mqtt_send, configure_tls_profile and update_gnss_asistance,
\* whose arguments and logs would multiply these states, are in NextBegin,
\* NextNvm, NextMqttSend, NextTls and NextGnssAssist.
Next ==
    \/ CallUrcHandler \/ UrcHandlerRun
    \/ CallLteConnect \/ LteConnectCfunReturns \/ LteConnectCopsReturns \/ LteConnectWake
    \/ CallLteDisconnect \/ LteDisconnectCfunReturns \/ LteDisconnectWake
    \/ CallGetTime \/ GetTimeFirstClockReturns \/ GetTimeRetryWake
    \/ GetTimeRetryClockReturns
    \/ CallGetGnssFix \/ GnssProgramReturns \/ GnssWaitSignalled \/ GnssWaitTimeout
    \/ GnssStopReturns
    \/ CallMqttConnect \/ MqttConnectReturns \/ MqttWaitSignalled \/ MqttWaitTimeout
    \/ CallMqttDisconnect \/ MqttDisconnectReturns
    \/ CallMqttConfigure \/ MqttConfigureReturns
    \/ CallPing \/ PingReturns
    \/ CallGetOperationMode \/ GetOperationModeReturns
    \/ CallSetOpeartionMode \/ SetOpeartionModeReturns
    \/ CallDefinePdpContext \/ DefinePdpContextReturns
    \/ CallSetOpState \/ SetOpStateReturns
    \/ CallSetGnssConfig \/ SetGnssConfigReturns
    \/ CallSend \/ SendReturns

Spec == Init /\ [][Next]_vars

\* nvm_write alone, called once on a new Modem with every index (the operation
\* reads nothing that an earlier call leaves behind)
FirstCallNvmWrite == result = NoResult /\ CallNvmWrite

NextNvm == FirstCallNvmWrite \/ NvmPrepareReturns \/ NvmWriteReturns

SpecNvm == Init /\ [][NextNvm]_vars

\* check_assistance_data alone: the task is suspended in its send, the flags are
\* what an earlier check left, and the modem may answer with any response
InitAssist ==
    /\ ModemState_new
    /\ stack = <<Frame("check_assistance_data", "get")>>
    /\ trace = <<Cmd_GetGnssAssitance>>
    /\ inflight = 1
    /\ clock = NoClock /\ retries = 0 /\ readings = <<>> /\ polled = "none"
    /\ result = NoResult /\ args = NoArgs /\ panicked = FALSE
    /\ initialized \in BOOLEAN
    /\ update_almanac \in BOOLEAN
    /\ update_ephemeris \in BOOLEAN
    /\ checks = 0 /\ begun = <<>> /\ assistance = <<>>
    /\ pending_mqtt = <<>> /\ pending_fix = <<>>
    /\ mqtt_window = <<>> /\ fix_window = <<>>
    /\ urc_script = <<>> /\ urc_pos = 0
    /\ cell_init = TRUE /\ subscribers = 0 /\ modems = 1 /\ handled = <<>> /\ observed = <<>>

AssistanceGetReturnsAny == AssistanceGetReturnsFrom(AllAssistanceResponses)

NextAssist == AssistanceGetReturnsAny

SpecAssist == InitAssist /\ [][NextAssist]_vars

\* update_gnss_asistance, with the operations it calls and the UrcHandler
NextGnssAssist ==
    \/ FirstUrcHandler \/ UrcHandlerRunCereg
    \/ CallUpdateGnssAsistance \/ AssistanceGetReturns \/ UpdateAlmanacReturns
    \/ UpdateEphemerisReturns \/ UpdatePollWake
    \/ LteConnectCfunReturns \/ LteConnectCopsReturns \/ LteConnectWake
    \/ LteDisconnectCfunReturns \/ LteDisconnectWake
    \/ GetTimeFirstClockReturns \/ GetTimeRetryWake \/ GetTimeRetryClockReturns

SpecGnssAssist == Init /\ [][NextGnssAssist]_vars

\* begin, called again and again on one Modem, with the +CEREG handler
NextBegin == FirstUrcHandler \/ UrcHandlerRunCereg \/ CallBegin \/ BeginCmeeReturns \/ BeginCeregReturns

SpecBegin == Init /\ [][NextBegin]_vars

\* configure_tls_profile alone, called once on a new Modem with every sp_id
FirstCallConfigureTlsProfile == result = NoResult /\ CallConfigureTlsProfile

NextTls == FirstCallConfigureTlsProfile \/ TlsConfigureReturns

SpecTls == Init /\ [][NextTls]_vars

\* the two operations that await a signal, with the handler that signals them
NextSignal ==
    \/ FirstUrcHandler \/ UrcHandlerRunLogged
    \/ CallMqttConnect \/ LteConnectCfunReturns \/ LteConnectCopsReturns \/ LteConnectWake
    \/ MqttConnectReturns \/ MqttWaitSignalled \/ MqttWaitTimeout
    \/ CallGetGnssFix \/ GnssProgramReturns \/ GnssWaitSignalled \/ GnssWaitTimeout
    \/ GnssStopReturns

SpecSignal == Init /\ [][NextSignal]_vars

\* the operations of Spec, any of which the caller may cancel while it is suspended
NextCancel == Next \/ Cancel

SpecCancel == Init /\ [][NextCancel]_vars

\* Clock::from_str alone, applied once to a string
\* civil times around the threshold, the example of the source, a leap day, the
\* modem's reset value, the first year of the two-digit window and a late one
CivilTimes ==
    { <<22, 12, 31, 23, 59, 59>>, <<23, 1, 1, 0, 0, 0>>, <<23, 1, 1, 0, 59, 59>>,
      <<23, 1, 1, 1, 0, 0>>, <<22, 12, 31, 22, 0, 0>>, <<24, 5, 30, 13, 22, 45>>,
      <<24, 2, 29, 0, 0, 0>>, <<70, 1, 1, 0, 0, 0>>, <<69, 12, 31, 23, 59, 59>>,
      <<37, 12, 31, 23, 59, 59>>, <<20, 1, 1, 0, 0, 0>> }
TzSigns == {"+", "-"}
QuarterHours == {0, 1, 4, 8, 56, 99}

ClockStringOf(c, sign, qq) == ClockString(c[1], c[2], c[3], c[4], c[5], c[6], sign, qq)

WellFormedClockStrings ==
    { ClockStringOf(c, sign, qq) : c \in CivilTimes, sign \in TzSigns, qq \in QuarterHours }

\* "24/05/30,13:22:45", the first 17 bytes of the example of the source
DateTimeExample == SubSeq(ClockString(24, 5, 30, 13, 22, 45, "+", 8), 1, 17)

MalformedClockStrings ==
    { <<>>,
      SubSeq(DateTimeExample, 1, 14),                          \* test_invalid_format_too_short
      DateTimeExample,
      DateTimeExample \o <<"+", "8">>,                         \* 19 bytes
      DateTimeExample \o <<"+", "X", "X">>,                    \* test_invalid_offset_parse
      DateTimeExample \o <<"+", "0", "x">>,
      DateTimeExample \o <<"+", " ", "8">>,
      [DateTimeExample EXCEPT ![3] = "-", ![6] = "-"] \o <<"+", "0", "8">>,  \* test_invalid_datetime_format
      [DateTimeExample EXCEPT ![1] = "x"] \o <<"+", "0", "8">>,
      ClockString(24, 13, 1, 0, 0, 0, "+", 8),                 \* no such month
      ClockString(23, 2, 29, 0, 0, 0, "+", 8),                 \* no such day
      ClockString(24, 5, 30, 24, 0, 0, "+", 8),                \* no such hour
      ClockString(24, 5, 30, 13, 60, 0, "-", 8),               \* no such minute
      DateTimeExample \o <<"+", "1", "0", "0">>,               \* 90 000 s
      DateTimeExample \o <<"-", "1", "0", "3">>,               \* -92 700 s
      DateTimeExample \o <<"+", "1", "0", "4">>,               \* 93 600 s
      DateTimeExample \o <<"-", "1", "0", "4">>,
      DateTimeExample \o <<"+", "9", "9", "9">>,
      ClockString(24, 13, 1, 0, 0, 0, "+", 8) \o <<"0">>,      \* no such month, 72 000 s
      DateTimeExample \o <<"+", "2", "1", "4", "7", "4", "8", "3", "6", "4", "7">>,
      DateTimeExample \o <<"-", "2", "3", "8", "6", "0", "9">>,
      DateTimeExample \o <<"+", "9", "9", "9", "9", "9", "9", "9", "9", "9", "9">>,
      DateTimeExample \o <<" ", "0", "8">>,                    \* no sign
      DateTimeExample \o <<"+", "-", "8">>,                    \* two signs
      SubSeq(DateTimeExample, 1, 16) \o <<"é", "+", "0", "8">>, \* byte 17 inside a character
      DateTimeExample \o <<"é", "0", "8">>,                    \* byte 18 inside a character
      DateTimeExample \o <<"é", "8">>,                         \* 20 bytes, 19 characters
      DateTimeExample \o <<"€">>,                              \* 20 bytes, 18 characters
      <<"é">> \o SubSeq(DateTimeExample, 3, 17) \o <<"€">>,    \* 20 bytes, 17 characters
      <<"é">> \o SubSeq(DateTimeExample, 3, 17) \o <<"+", "0", "8">>,  \* the 18th character is byte 18
      DateTimeExample \o <<"+", "0", "é">> }                   \* 21 bytes, on boundaries

ClockStrings == WellFormedClockStrings \cup MalformedClockStrings

InitClock ==
    /\ ModemState_new
    /\ stack = <<>> /\ trace = <<>> /\ inflight = 0
    /\ clock = NoClock /\ retries = 0 /\ readings = <<>> /\ polled = "none"
    /\ result = NoResult /\ panicked = FALSE
    /\ args \in { [s |-> cs] : cs \in ClockStrings }
    /\ initialized = FALSE /\ update_almanac = FALSE /\ update_ephemeris = FALSE
    /\ checks = 0 /\ begun = <<>> /\ assistance = <<>>
    /\ pending_mqtt = <<>> /\ pending_fix = <<>>
    /\ mqtt_window = <<>> /\ fix_window = <<>>
    /\ urc_script = <<>> /\ urc_pos = 0
    /\ cell_init = TRUE /\ subscribers = 0 /\ modems = 1 /\ handled = <<>> /\ observed = <<>>

\* Clock::from_str(s) returns, or panics
ClockFromStr ==
    /\ result = NoResult
    /\ \E out \in from_str(args.s) :
         /\ result' = [op |-> "from_str", kind |-> out.kind, val |-> out.time]
         /\ panicked' = (out.kind = "Panic")
    /\ UNCHANGED <<modem_state, stack, trace, inflight, clock, retries, readings, polled,
                   args, initialized, update_almanac, update_ephemeris, checks, begun,
                   assistance, pending_mqtt, pending_fix, static_vars>>
    /\ UNCHANGED <<mqtt_window, fix_window>>

NextClock == ClockFromStr

SpecClock == InitClock /\ [][NextClock]_vars

\* Nullable alone: a struct is written with to_slice and what was written is read
\* back, or a line of fields is read with from_slice
\* tests::ser_nullable: a: u8, b: Nullable<u8>, c: Nullable<i32>, d: u8
SerSchema == <<Field("u8", FALSE), Field("u8", TRUE), Field("i32", TRUE), Field("u8", FALSE)>>
\* tests::de_nullable: a: u8, b: Nullable<u8>, c: Nullable<i32>, d: Nullable<String<12>>, e: u8
DeSchema == <<Field("u8", FALSE), Field("u8", TRUE), Field("i32", TRUE), Field("str", TRUE),
              Field("u8", FALSE)>>
CMD == <<"+", "C", "M", "D">>

NullableOf(S) == {Nullable_None} \cup { Nullable_Some(v) : v \in S }

SerValues ==
    { <<a, b, c, d>> : a \in {0, 2, 255}, b \in NullableOf({0, 2, 255}),
                       c \in NullableOf({-7, 0, 2}), d \in {0, 4} }

\* tokens, each with the value it stands for
U8Tokens == { <<<<"0">>, 0>>, <<<<"2">>, 2>> }
NullableU8Tokens == { <<<<>>, Nullable_None>>, <<<<"1">>, Nullable_Some(1)>>,
                      <<<<"2", "5", "5">>, Nullable_Some(255)>> }
NullableI32Tokens == { <<<<>>, Nullable_None>>, <<<<"-", "7">>, Nullable_Some(-7)>>,
                       <<<<"2">>, Nullable_Some(2)>> }
NullableStringTokens == { <<<<>>, Nullable_None>>,
                          <<<<"\"", "f", "o", "o", "\"">>, Nullable_Some(<<"f", "o", "o">>)>>,
                          <<<<"\"", "\"">>, Nullable_Some(<<>>)>> }

DeLines ==
    { [line |-> serialize_fields(<<a[1], b[1], c[1], d[1], e[1]>>),
       meaning |-> <<a[2], b[2], c[2], d[2], e[2]>>] :
        a \in U8Tokens, b \in NullableU8Tokens, c \in NullableI32Tokens,
        d \in NullableStringTokens, e \in U8Tokens }

InitNullable ==
    /\ ModemState_new
    /\ stack = <<>> /\ trace = <<>> /\ inflight = 0
    /\ clock = NoClock /\ retries = 0 /\ readings = <<>> /\ polled = "none"
    /\ result = NoResult /\ panicked = FALSE
    /\ args \in { [value |-> v, line |-> <<>>, meaning |-> v] : v \in SerValues }
                \cup { [value |-> <<>>, line |-> l.line, meaning |-> l.meaning] : l \in DeLines }
    /\ initialized = FALSE /\ update_almanac = FALSE /\ update_ephemeris = FALSE
    /\ checks = 0 /\ begun = <<>> /\ assistance = <<>>
    /\ pending_mqtt = <<>> /\ pending_fix = <<>>
    /\ mqtt_window = <<>> /\ fix_window = <<>>
    /\ urc_script = <<>> /\ urc_pos = 0
    /\ cell_init = TRUE /\ subscribers = 0 /\ modems = 1 /\ handled = <<>> /\ observed = <<>>

nullable_unchanged ==
    UNCHANGED <<modem_state, stack, inflight, clock, retries, readings, polled, args,
                panicked, initialized, update_almanac, update_ephemeris, checks, begun,
                assistance, pending_mqtt, pending_fix, static_vars, mqtt_window, fix_window>>

\* to_slice(&value, "+CMD", &mut buf, SerializeOptions::default())
NullableToSlice ==
    /\ args.value # <<>>
    /\ result = NoResult
    /\ trace' = <<[ev |-> "WithOption",
                   wire |-> to_slice(serialize_struct(SerSchema, args.value), CMD,
                                     SerializeOptions_default)]>>
    /\ result' = [op |-> "to_slice", kind |-> "Ok", val |-> Unit]
    /\ nullable_unchanged

\* the fields of a written command line: what follows "AT+CMD=", without the termination
FieldsOf(wire) == SubSeq(wire, 8, Len(wire) - 2)

\* from_slice::<WithOption>(fields) of the fields just written
NullableReadBack ==
    /\ result.op = "to_slice"
    /\ LET r == from_slice(SerSchema, FieldsOf(trace[1].wire))
       IN  result' = [op |-> "from_slice", kind |-> r.kind, val |-> r.value]
    /\ UNCHANGED trace
    /\ nullable_unchanged

\* from_slice::<WithOption>(line)
NullableFromSlice ==
    /\ args.value = <<>>
    /\ result = NoResult
    /\ LET r == from_slice(DeSchema, args.line)
       IN  result' = [op |-> "from_slice", kind |-> r.kind, val |-> r.value]
    /\ UNCHANGED trace
    /\ nullable_unchanged

NextNullable == NullableToSlice \/ NullableReadBack \/ NullableFromSlice

SpecNullable == InitNullable /\ [][NextNullable]_vars

\* the textual enums alone: a variant is written with to_slice, or the visitor
\* of PDPType is handed bytes or a string by a deserializer
MaxLiteralLen == 3
LiteralBytes == {"I", "P", "V", "6", "p"}
Quoted(cs) == <<"\"">> \o cs \o <<"\"">>

Literals ==
    UNION { [1..n -> LiteralBytes] : n \in 0..MaxLiteralLen }
    \cup { <<"I", "P", "V", "4", "V", "6">>, <<"N", "o", "n", "-", "I", "P">>,
           <<"O", "S", "P", "I", "H">>, <<"X", ".", "2", "5">>,
           <<"I", "P", "V", "4">>, <<"N", "o", "n", "I", "P">>, <<"X", "2", "5">>,
           <<"i", "p", "v", "6">>, <<"s", "i", "n", "g", "l", "e">>,
           <<"I", "P", "V", "4", "V", "6", " ">>, <<"I", "P", "é">>, <<"€">> }

\* what a deserializer may hand to the visitor: a literal as it stands, or the
\* token the Serialize impl writes, quotes included
Handed ==
    { [as |-> m, v |-> l] : m \in {"bytes", "str"}, l \in Literals }
    \cup { [as |-> m, v |-> Quoted(l)] : m \in {"bytes", "str"}, l \in Literals }

NotHanded == [as |-> "none", v |-> <<>>]

InitEnum ==
    /\ ModemState_new
    /\ stack = <<>> /\ trace = <<>> /\ inflight = 0
    /\ clock = NoClock /\ retries = 0 /\ readings = <<>> /\ polled = "none"
    /\ result = NoResult /\ panicked = FALSE
    /\ args \in { [enum |-> "PDPType", variant |-> v, handed |-> NotHanded] : v \in PDPType }
                \cup { [enum |-> "ProgramGnssAction", variant |-> v, handed |-> NotHanded] :
                         v \in ProgramGnssAction }
                \cup { [enum |-> "PDPType", variant |-> "none", handed |-> h] :
                         h \in Handed }
    /\ initialized = FALSE /\ update_almanac = FALSE /\ update_ephemeris = FALSE
    /\ checks = 0 /\ begun = <<>> /\ assistance = <<>>
    /\ pending_mqtt = <<>> /\ pending_fix = <<>>
    /\ mqtt_window = <<>> /\ fix_window = <<>>
    /\ urc_script = <<>> /\ urc_pos = 0
    /\ cell_init = TRUE /\ subscribers = 0 /\ modems = 1 /\ handled = <<>> /\ observed = <<>>

\* to_slice(&variant, "", &mut buf, options)
EnumToSlice ==
    /\ args.variant # "none"
    /\ result = NoResult
    /\ trace' = <<[ev |-> args.enum,
                   wire |-> to_slice_value(IF args.enum = "PDPType"
                                           THEN PDPType_serialize(args.variant)
                                           ELSE ProgramGnssAction_serialize(args.variant))]>>
    /\ result' = [op |-> "to_slice", kind |-> "Ok", val |-> "none"]
    /\ nullable_unchanged

\* PDPType::deserialize with a deserializer that hands args.handed to the visitor
PDPTypeDeserialize ==
    /\ args.variant = "none"
    /\ result = NoResult
    /\ LET r == PDPType_deserialize(args.handed)
       IN  result' = [op |-> "deserialize", kind |-> r.kind, val |-> r.value]
    /\ UNCHANGED trace
    /\ nullable_unchanged

NextEnum == EnumToSlice \/ PDPTypeDeserialize

SpecEnum == InitEnum /\ [][NextEnum]_vars

\* every hand-serialised argument type, written into buffers of 0..MaxBufLen bytes
MaxBufLen == 14

HandSerialised ==
    { [enum |-> "PDPType", variant |-> v] : v \in PDPType }
    \cup { [enum |-> "ProgramGnssAction", variant |-> v] : v \in ProgramGnssAction }
    \cup { [enum |-> "DataType", variant |-> v] : v \in DataTypes }
    \cup { [enum |-> "Reserved", variant |-> "Reserved"] }

InitWireLen ==
    /\ ModemState_new
    /\ stack = <<>> /\ trace = <<>> /\ inflight = 0
    /\ clock = NoClock /\ retries = 0 /\ readings = <<>> /\ polled = "none"
    /\ result = NoResult /\ panicked = FALSE
    /\ args \in { [enum |-> a.enum, variant |-> a.variant, cap |-> c] :
                     a \in HandSerialised, c \in 0..MaxBufLen }
    /\ initialized = FALSE /\ update_almanac = FALSE /\ update_ephemeris = FALSE
    /\ checks = 0 /\ begun = <<>> /\ assistance = <<>>
    /\ pending_mqtt = <<>> /\ pending_fix = <<>>
    /\ mqtt_window = <<>> /\ fix_window = <<>>
    /\ urc_script = <<>> /\ urc_pos = 0
    /\ cell_init = TRUE /\ subscribers = 0 /\ modems = 1 /\ handled = <<>> /\ observed = <<>>

\* the encoding of the argument
Encoding(a) ==
    CASE a.enum = "PDPType" -> PDPType_serialize(a.variant)
      [] a.enum = "ProgramGnssAction" -> ProgramGnssAction_serialize(a.variant)
      [] a.enum = "DataType" -> DataType_serialize(a.variant)
      [] a.enum = "Reserved" -> Reserved_serialize

\* the wire length declared for the argument
DeclaredLen(a) ==
    CASE a.enum = "PDPType" -> PDPType_LEN
      [] a.enum = "ProgramGnssAction" -> ProgramGnss_action_len
      [] a.enum = "DataType" -> DataType_LEN
      [] a.enum = "Reserved" -> Reserved_LEN

\* to_slice(&value, "", &mut buf, options) with buf of args.cap bytes
ArgToSlice ==
    /\ result = NoResult
    /\ LET r == to_slice_into(Encoding(args), args.cap)
       IN  /\ result' = [op |-> "to_slice", kind |-> r.kind, val |-> r.value]
           /\ trace' = IF r.kind = "Ok"
                       THEN <<[ev |-> args.enum, wire |-> to_slice_value(Encoding(args))]>>
                       ELSE trace
    /\ nullable_unchanged

NextWireLen == ArgToSlice

SpecWireLen == InitWireLen /\ [][NextWireLen]_vars

\* a program from its start: no Modem exists and the cell is empty
InitProcess ==
    /\ ModemState_new
    /\ stack = <<>> /\ trace = <<>> /\ inflight = 0
    /\ clock = NoClock /\ retries = 0 /\ readings = <<>> /\ polled = "none"
    /\ result = NoResult /\ args = NoArgs /\ panicked = FALSE
    /\ initialized = FALSE /\ update_almanac = FALSE /\ update_ephemeris = FALSE
    /\ checks = 0 /\ begun = <<>> /\ assistance = <<>>
    /\ pending_mqtt = <<>> /\ pending_fix = <<>>
    /\ mqtt_window = <<>> /\ fix_window = <<>>
    /\ urc_script = <<>> /\ urc_pos = 0
    /\ cell_init = FALSE /\ subscribers = 0 /\ modems = 0 /\ handled = <<>> /\ observed = <<>>

\* lte_connect, called once, next to the +CEREG handler, with a record of the
\* writes and the reads of reg_state
FirstCallLteConnect == result = NoResult /\ CallLteConnect

NextPoll ==
    \/ FirstUrcHandler \/ UrcHandlerRunCeregObserved
    \/ FirstCallLteConnect \/ LteConnectCfunReturns \/ LteConnectCopsReturnsObserved
    \/ LteConnectWakeObserved

SpecPoll == Init /\ [][NextPoll]_vars

\* lte_connect and lte_disconnect next to the +CEREG handler, with timers that
\* fire: a task that sleeps in Timer::after is woken once the delay has elapsed.
\* Nothing is assumed about the arrival of URC messages.
NextLte ==
    \/ FirstUrcHandler \/ UrcHandlerRunCereg
    \/ CallLteConnect \/ LteConnectCfunReturns \/ LteConnectCopsReturns \/ LteConnectWake
    \/ CallLteDisconnect \/ LteDisconnectCfunReturns \/ LteDisconnectWake

SpecLteLive ==
    /\ Init /\ [][NextLte]_vars
    /\ WF_vars(LteConnectWake)
    /\ WF_vars(LteDisconnectWake)

\* the operations of the Modem next to a UrcHandler whose messages are recorded
NextWriters ==
    \/ FirstUrcHandler \/ UrcHandlerRunRecorded
    \/ CallLteConnect \/ LteConnectCfunReturns \/ LteConnectCopsReturns \/ LteConnectWake
    \/ CallLteDisconnect \/ LteDisconnectCfunReturns \/ LteDisconnectWake
    \/ CallGetGnssFix \/ GnssProgramReturns \/ GnssWaitSignalled \/ GnssWaitTimeout
    \/ GnssStopReturns
    \/ CallMqttConnect \/ MqttConnectReturns \/ MqttWaitSignalled \/ MqttWaitTimeout
    \/ CallGetTime \/ GetTimeFirstClockReturns \/ GetTimeRetryWake
    \/ GetTimeRetryClockReturns
    \/ CallMqttDisconnect \/ MqttDisconnectReturns
    \/ CallMqttConfigure \/ MqttConfigureReturns
    \/ CallPing \/ PingReturns
    \/ CallGetOperationMode \/ GetOperationModeReturns
    \/ CallSetOpeartionMode \/ SetOpeartionModeReturns
    \/ CallDefinePdpContext \/ DefinePdpContextReturns
    \/ CallSetOpState \/ SetOpStateReturns
    \/ CallSetGnssConfig \/ SetGnssConfigReturns
    \/ CallSend \/ SendReturns

SpecWriters == Init /\ [][NextWriters]_vars

\* the operations of Spec need the Modem handle
NextProcess == ModemNew \/ ModemDrop \/ (modems = 1 /\ Next)

SpecProcess == InitProcess /\ [][NextProcess]_vars

\* mqtt_send alone, called once on a new Modem (it reads no state of the Modem)
FirstCallMqttSend == result = NoResult /\ CallMqttSend

NextMqttSend == FirstCallMqttSend \/ MqttPreparePublishReturns \/ MqttPublishReturns

SpecMqttSend == Init /\ [][NextMqttSend]_vars

\* the two operations that send a raw payload after a prepare command, one call
\* of either on a new Modem
NextPayload == NextNvm \/ NextMqttSend

SpecPayload == Init /\ [][NextPayload]_vars

\* the UrcHandler alone, processing a finite sequence of URC messages
ScriptMessages ==
    [urc : {"NetworkRegistrationStatus"}, stat : NetworkRegistrationState]
    \cup { [urc |-> "MqttConnected", id |-> 0, rc |-> "Success"],
           [urc |-> "GnssFixReady", fix_id |-> 0] }
    \cup [urc : { "MqttDisconnected", "MqttMessagePublished", "MqttMessageReceived",
                  "MqttSubscribed", "MqttPromptToPublish", "Shutdown", "Start",
                  "CoapConnected" }]

InitUrc ==
    /\ ModemState_new
    /\ Modem_new
    /\ mqtt_window = <<>>
    /\ fix_window = <<>>
    /\ urc_script \in UNION { [1..n -> ScriptMessages] : n \in 0..MaxUrcLen }
    /\ urc_pos = 0

NextUrc == FirstUrcHandler \/ UrcHandlerRunScript

SpecUrc == InitUrc /\ [][NextUrc]_vars

(***************************************************************************)
(* Properties.                                                             *)
(***************************************************************************)
Returned(op) == result.op = op
ReturnedOk(op) == result.op = op /\ result.kind = "Ok"
ReturnedErr(op, e) == result.op = op /\ result.kind = "Err" /\ result.val = e.val
ReturnedAT(op) == ReturnedErr(op, ErrAT)
Last(seq) == seq[Len(seq)]
EndsWith(seq, tail) ==
    Len(seq) >= Len(tail) /\ SubSeq(seq, Len(seq) - Len(tail) + 1, Len(seq)) = tail

\* C1: given that lte_connect and mqtt::Connect succeed, mqtt_connect returns Ok
\* iff the first MqttConnected URC within the 30 s wait has rc = Success,
\* Err(MQTT(rc)) if that first URC carries another rc, and Err(Timeout) if no
\* MqttConnected URC arrives within the wait.
C1_FirstUrcInWindowDecides ==
    Returned("mqtt_connect") /\ ~ReturnedAT("mqtt_connect") =>
        IF mqtt_window = <<>> THEN ReturnedErr("mqtt_connect", ErrTimeout)
        ELSE IF mqtt_window[1] = "Success" THEN ReturnedOk("mqtt_connect")
        ELSE ReturnedErr("mqtt_connect", ErrMQTT(mqtt_window[1]))

\* C2: a MqttConnected value signalled before the wait of mqtt_connect is never
\* consumed as its result: mqtt_connect returns Ok only on account of a
\* MqttConnected{rc = Success} URC inside that call's 30 s window.
C2_OkOnlyFromUrcInWindow ==
    ReturnedOk("mqtt_connect") =>
        \E i \in 1..Len(mqtt_window) : mqtt_window[i] = "Success"

\* the stat of the last NetworkRegistrationStatus of a URC sequence
RECURSIVE LastCeregStat(_)
LastCeregStat(msgs) ==
    IF msgs = <<>> THEN "NotSearching"
    ELSE IF Last(msgs).urc = "NetworkRegistrationStatus" THEN Last(msgs).stat
    ELSE LastCeregStat(SubSeq(msgs, 1, Len(msgs) - 1))

\* C3: once the UrcHandler has processed a finite sequence of URC messages,
\* reg_state is the stat of the last +CEREG message of the sequence, and the
\* initial NotSearching when the sequence holds no +CEREG message.
C3_RegStateIsLastCereg ==
    urc_pos = Len(urc_script) => reg_state = LastCeregStat(urc_script)

C3_Witness ==
    /\ Len(urc_script) = 3 /\ urc_pos = 3
    /\ urc_script[1].urc = "NetworkRegistrationStatus"
    /\ urc_script[2].urc = "NetworkRegistrationStatus"
    /\ urc_script[1].stat = "RegisteredHome"
    /\ urc_script[2].stat = "RegisteredTempConnLoss"
    /\ urc_script[3].urc = "MqttConnected"
    /\ reg_state = "RegisteredTempConnLoss"

\* the suspension points at which the task awaits the transport, those of the
\* operations outside Next included
SendPoints ==
    { "cfun", "cops", "clock0", "clock_retry", "program", "stop", "connect",
      "prepare", "write", "at", "get", "set", "define", "config", "configure",
      "disconnect", "cmd", "cmee", "cereg", "publish", "almanac", "ephemeris" }

\* C4: at most one AT request is outstanding at any instant, and one is
\* outstanding exactly while the task is suspended in a send; the UrcHandler
\* steps interleave with it.
C4_OneOutstandingRequest ==
    /\ inflight \in {0, 1}
    /\ inflight = 1 <=> (stack # <<>> /\ Head(stack).pc \in SendPoints)

C4_Witness ==
    /\ inflight = 1
    /\ At("lte_disconnect", "cfun") /\ Len(stack) = 2
    /\ Len(Commands(trace)) = 5
    /\ mqtt_connected # <<>>

\* C5: lte_connect sends SetFunctionality{Full}, then PLMNSelection{Automatic};
\* it returns Ok only at a poll that read RegisteredHome or RegisteredRoaming,
\* sleeps 1 s after a poll that read anything else, and returns no error but
\* the AT error of one of its two commands.
C5_LteConnect ==
    /\ At("lte_connect", "cfun") => EndsWith(trace, <<Cmd_SetFunctionality("Full")>>)
    /\ At("lte_connect", "cops") \/ At("lte_connect", "poll_sleep") =>
          EndsWith(trace, <<Cmd_SetFunctionality("Full"), Cmd_PLMNSelection("Automatic")>>)
    /\ At("lte_connect", "poll_sleep") =>
          Head(stack).timer = LTE_CONNECT_POLL_MS /\ polled \notin Registered
    /\ ReturnedOk("lte_connect") =>
          /\ polled \in {"RegisteredHome", "RegisteredRoaming"}
          /\ trace = <<Cmd_SetFunctionality("Full"), Cmd_PLMNSelection("Automatic")>>
    /\ Returned("lte_connect") /\ result.kind = "Err" =>
          ReturnedAT("lte_connect") /\ polled = "none"
    \* the callers go on only after such a poll
    /\ At("get_time", "retry_sleep") \/ At("mqtt_connect", "connect")
          \/ At("mqtt_connect", "wait") => polled \in {"RegisteredHome", "RegisteredRoaming"}

C5_Witness ==
    /\ ReturnedOk("lte_connect")
    /\ polled = "RegisteredRoaming"
    /\ reg_state = "Denied"

\* C6: lte_disconnect sends SetFunctionality{Minimum}; it returns Ok only at a
\* poll that read NotSearching, and after a poll that read anything else it
\* sleeps 100 ms without sending a further command.
C6_LteDisconnect ==
    /\ At("lte_disconnect", "cfun") \/ At("lte_disconnect", "poll_sleep") =>
          EndsWith(trace, <<Cmd_SetFunctionality("Minimum")>>)
    /\ At("lte_disconnect", "poll_sleep") =>
          Head(stack).timer = LTE_DISCONNECT_POLL_MS /\ polled # "NotSearching"
    /\ Returned("lte_disconnect") => trace = <<Cmd_SetFunctionality("Minimum")>>
    /\ ReturnedOk("lte_disconnect") => polled = "NotSearching"
    /\ Returned("lte_disconnect") /\ result.kind = "Err" =>
          ReturnedAT("lte_disconnect") /\ polled = "none"

C6_Witness ==
    /\ ReturnedOk("lte_disconnect")
    /\ polled = "NotSearching"
    /\ reg_state = "Searching"

\* k retries of get_time: a 500 ms delay before each GetClock
RECURSIVE RetryEvents(_)
RetryEvents(k) ==
    IF k = 0 THEN <<>>
    ELSE RetryEvents(k - 1) \o <<Delay(GET_TIME_RETRY_MS), Cmd_GetClock>>

\* C7: when the first GetClock of get_time reads the sentinel (and no command
\* fails), get_time runs lte_connect, issues at most 5 further GetClock, each
\* after a 500 ms delay, stopping at the first valid reading, then runs
\* lte_disconnect; it returns the valid clock if one was read and
\* Err(ClockSynchronization) if all 5 retries read the sentinel.
C7_GetTimeSynchronizes ==
    Returned("get_time") /\ ~ReturnedAT("get_time") /\ readings[1].timestamp = 0 =>
        LET k == Len(readings) - 1
        IN  /\ k \in 1..5
            /\ trace = <<Cmd_GetClock, Cmd_SetFunctionality("Full"),
                         Cmd_PLMNSelection("Automatic")>>
                       \o RetryEvents(k) \o <<Cmd_SetFunctionality("Minimum")>>
            /\ \A i \in 2..k : readings[i].timestamp = 0
            /\ IF Last(readings).timestamp # 0
               THEN ReturnedOk("get_time") /\ result.val = Last(readings)
               ELSE k = 5 /\ ReturnedErr("get_time", ErrClockSynchronization)

C7_Witness ==
    /\ ReturnedErr("get_time", ErrClockSynchronization)
    /\ Len(readings) = 6
    /\ Last(trace) = Cmd_SetFunctionality("Minimum")

\* C8: whenever get_time returns Ok(clock), the timestamp of clock is at or
\* after 2023-01-01T00:00:00Z (1 672 531 200 s).
C8_GetTimeOkIsValid ==
    ReturnedOk("get_time") => result.val.timestamp >= 1672531200

C8_Witness ==
    /\ ReturnedOk("get_time")
    /\ result.val.timestamp = 1672531200
    /\ Len(readings) = 3

\* was ProgramGnss{Single} acknowledged in the get_gnss_fix that returned?
SingleAcknowledged == ~(ReturnedAT("get_gnss_fix") /\ Len(trace) = 1)

\* C9 as stated: if no GnssFixReady is signalled within the 180 s after
\* ProgramGnss{Single} was acknowledged, get_gnss_fix sends ProgramGnss{Stop}
\* and fails with Err(Timeout); if a fix is signalled in time it returns that
\* fix and sends no Stop.
C9_TimeoutIffNoFixAfterAck ==
    Returned("get_gnss_fix") /\ SingleAcknowledged =>
        IF \A i \in 1..Len(fix_window) : fix_window[i].during # "wait"
        THEN /\ trace = <<Cmd_ProgramGnss("Single"), Cmd_ProgramGnss("Stop")>>
             /\ ReturnedErr("get_gnss_fix", ErrTimeout)
        ELSE /\ trace = <<Cmd_ProgramGnss("Single")>>
             /\ ReturnedOk("get_gnss_fix")

\* C9 as amended: if no GnssFixReady is signalled between the reset at the
\* start of the call and the end of the 180 s wait, get_gnss_fix sends
\* ProgramGnss{Stop} and fails with Err(Timeout), or with the AT error of Stop;
\* if one is signalled in that interval (also while Single is pending), it
\* returns the fix signalled last and sends no Stop.
C9_TimeoutIffNoFixSinceReset ==
    Returned("get_gnss_fix") /\ SingleAcknowledged =>
        IF fix_window = <<>>
        THEN /\ trace = <<Cmd_ProgramGnss("Single"), Cmd_ProgramGnss("Stop")>>
             /\ ReturnedErr("get_gnss_fix", ErrTimeout) \/ ReturnedAT("get_gnss_fix")
        ELSE /\ trace = <<Cmd_ProgramGnss("Single")>>
             /\ ReturnedOk("get_gnss_fix")
             /\ result.val.fix_id = Last(fix_window).fix_id

C9_Witness ==
    /\ ReturnedErr("get_gnss_fix", ErrTimeout)
    /\ trace = <<Cmd_ProgramGnss("Single"), Cmd_ProgramGnss("Stop")>>
    /\ fix_window = <<>>

\* C10: for every index in 0..=4 or 7..=10 nvm_write panics before any command
\* is passed to the transport; for every other u8 index the assertion passes
\* and PrepareWrite is sent.
C10_NvmWriteAssertion ==
    args # NoArgs =>
        IF args.index \in {0, 1, 2, 3, 4, 7, 8, 9, 10}
        THEN panicked /\ trace = <<>> /\ inflight = 0 /\ stack = <<>>
        ELSE /\ ~panicked
             /\ trace # <<>>
             /\ trace[1] = Cmd_PrepareWrite(args.data_type, args.index, Len(args.data))

C10_Witness ==
    /\ panicked
    /\ args # NoArgs
    /\ args.index = 10
    /\ Len(args.data) = 2
    /\ trace = <<>>

\* the command line that mqtt_send announces its payload with
PreparePublishLine(topic, qos, len) ==
    <<"A", "T">> \o PreparePublish_cmd \o <<"=", "0", ",", "\"">> \o topic \o <<"\"", ",">>
    \o serialize_uint(Qos_value(qos)) \o <<",">> \o serialize_uint(len) \o <<"\r">>

\* C11: mqtt_send issues exactly two commands in order: PreparePublish{id = 0,
\* topic, qos = Some(qos), length = data.len()}, on the wire
\* AT+SQNSMQTTPUBLISH=0,"<topic>",<qos>,<len> ended by a single \r, then Publish
\* carrying exactly the bytes of data; the announced length is the number of
\* payload bytes sent.
C11_MqttSendWire ==
    /\ At("mqtt_send", "prepare") \/ (ReturnedAT("mqtt_send") /\ Len(trace) = 1) =>
          trace = <<Cmd_PreparePublish(0, args.topic, <<args.qos>>, Len(args.data))>>
    /\ At("mqtt_send", "publish") \/ ReturnedOk("mqtt_send")
          \/ (ReturnedAT("mqtt_send") /\ Len(trace) # 1) =>
          /\ Len(trace) = 2
          /\ trace[1].ev = "mqtt::PreparePublish" /\ trace[2].ev = "mqtt::Publish"
          /\ trace[1].wire = PreparePublishLine(args.topic, args.qos, Len(args.data))
          /\ trace[2].wire = args.data
          /\ trace[1].length = Len(trace[2].wire)
    /\ Returned("mqtt_send") => ReturnedOk("mqtt_send") \/ ReturnedAT("mqtt_send")

C11_Witness ==
    /\ ReturnedOk("mqtt_send")
    /\ args.topic = <<"t", "/", "x">> /\ args.qos = "AtLeastOnce" /\ args.data = <<"h", "i">>
    /\ trace[1].wire = <<"A", "T", "+", "S", "Q", "N", "S", "M", "Q", "T", "T", "P", "U", "B",
                         "L", "I", "S", "H", "=", "0", ",", "\"", "t", "/", "x", "\"", ",",
                         "1", ",", "2", "\r">>
    /\ trace[2].wire = <<"h", "i">>

\* the flags a check leaves for response data
NeedsAlmanac(data) == check_assistance_loop([update_almanac |-> FALSE, update_ephemeris |-> FALSE,
                                             assistance |-> <<>>], data).update_almanac
NeedsEphemeris(data) == check_assistance_loop([update_almanac |-> FALSE, update_ephemeris |-> FALSE,
                                               assistance |-> <<>>], data).update_ephemeris

\* k rounds of the polling loop of update_gnss_asistance
RECURSIVE PollEvents(_)
PollEvents(k) ==
    IF k = 0 THEN <<>>
    ELSE PollEvents(k - 1) \o <<Delay(10000), Cmd_GetGnssAssitance>>

\* C12: when the first assistance check of update_gnss_asistance finds an update
\* needed (and no later command fails), the operation runs lte_connect, sends
\* UpdateGnssAssitance{Almanac} iff update_almanac and
\* UpdateGnssAssitance{RealTimeEphemeris} iff update_ephemeris, almanac first,
\* then at most 10 times waits 10 s and checks again, stopping as soon as both
\* flags are clear, and finally runs lte_disconnect.
C12_UpdateGnssAssistance ==
    /\ At("update_gnss_asistance", "check_sleep") =>
          /\ update_almanac \/ update_ephemeris
          /\ checks \in 1..10
          /\ Head(stack).timer = 10000
    /\ Returned("update_gnss_asistance") /\ ~ReturnedAT("update_gnss_asistance")
          /\ assistance # <<>> /\ (NeedsAlmanac(assistance[1]) \/ NeedsEphemeris(assistance[1])) =>
          /\ ReturnedOk("update_gnss_asistance")
          /\ checks \in 1..10
          /\ Len(assistance) = 2
          /\ checks = 10 \/ (~update_almanac /\ ~update_ephemeris)
          /\ update_almanac = NeedsAlmanac(assistance[2])
          /\ update_ephemeris = NeedsEphemeris(assistance[2])
          /\ Len(SelectSeq(trace, LAMBDA e : e = Cmd_GetGnssAssitance)) = checks + 1
          /\ EndsWith(trace,
                <<Cmd_GetGnssAssitance, Cmd_SetFunctionality("Full"),
                  Cmd_PLMNSelection("Automatic")>>
                \o (IF NeedsAlmanac(assistance[1])
                    THEN <<Cmd_UpdateGnssAssitance("Almanac")>> ELSE <<>>)
                \o (IF NeedsEphemeris(assistance[1])
                    THEN <<Cmd_UpdateGnssAssitance("RealTimeEphemeris")>> ELSE <<>>)
                \o PollEvents(checks) \o <<Cmd_SetFunctionality("Minimum")>>)

C12_Witness ==
    /\ ReturnedOk("update_gnss_asistance")
    /\ checks = 3
    /\ Len(assistance) = 2
    /\ NeedsAlmanac(assistance[1]) /\ NeedsEphemeris(assistance[1])
    /\ ~update_almanac /\ ~update_ephemeris
    /\ EndsWith(trace, <<Cmd_UpdateGnssAssitance("Almanac"),
                         Cmd_UpdateGnssAssitance("RealTimeEphemeris")>>
                       \o PollEvents(3) \o <<Cmd_SetFunctionality("Minimum")>>)

\* the record of type typ in a response that holds one
RecordOf(data, typ) == data[CHOOSE i \in 1..Len(data) : data[i].typ = typ]
HasAllTypes(data) == \A typ \in GnssAssitanceType : \E i \in 1..Len(data) : data[i].typ = typ

\* C13: after check_assistance_data processed a response with records for all
\* three assistance types, update_almanac is true exactly when the almanac
\* record is unavailable or has time_to_update <= 0, update_ephemeris exactly
\* when the real-time ephemeris record is unavailable or has time_to_update <= 0;
\* the predicted-ephemeris record influences neither.
C13_AssistanceFlags ==
    ReturnedOk("check_assistance_data") /\ HasAllTypes(Last(assistance)) =>
        LET alm == RecordOf(Last(assistance), "Almanac")
            eph == RecordOf(Last(assistance), "RealTimeEphemeris")
        IN  /\ update_almanac <=> (alm.available = "False" \/ alm.time_to_update <= 0)
            /\ update_ephemeris <=> (eph.available = "False" \/ eph.time_to_update <= 0)

C13_Witness ==
    /\ ReturnedOk("check_assistance_data")
    /\ assistance = << <<Assistance("PredictedEphemeris", "False", -1),
                         Assistance("RealTimeEphemeris", "True", 1),
                         Assistance("Almanac", "True", 0)>> >>
    /\ update_almanac /\ ~update_ephemeris

BeginCommands == SelectSeq(begun, LAMBDA e : e.ev # "return")
BeginFailed == \E i \in 1..Len(begun) : begun[i] = BeginReturned("Err")

\* C14: once a begin() has returned Ok, every later begin() on the same Modem
\* returns Ok without sending a command; in a run in which no command fails,
\* +CMEE=1 and +CEREG=1 are each sent exactly once, in that order, however many
\* times begin() is called.
C14_BeginIdempotent ==
    /\ \A i \in 1..Len(begun) : \A j \in (i + 1)..Len(begun) :
          begun[i] = BeginReturned("Ok") => begun[j] = BeginReturned("Ok")
    /\ ReturnedOk("begin") /\ Len(begun) > 0 /\ begun[Len(begun) - 1] = BeginReturned("Ok") =>
          trace = <<>>
    /\ ~BeginFailed /\ Returned("begin") =>
          /\ ReturnedOk("begin")
          /\ BeginCommands = <<Cmd_ConfigureCMEErrorReports("Numeric"),
                               Cmd_ConfigureCEREGReports("Enabled")>>
          /\ SubSeq(begun, 1, 2) = BeginCommands

C14_Witness ==
    /\ ReturnedOk("begin")
    /\ trace = <<>>
    /\ begun = <<Cmd_ConfigureCMEErrorReports("Numeric"), Cmd_ConfigureCEREGReports("Enabled"),
                 BeginReturned("Ok"), BeginReturned("Ok"), BeginReturned("Ok")>>

\* C15: configure_tls_profile panics on its assertion, before any command is
\* sent, for every sp_id outside 1..=6; for sp_id in 1..=6 it sends exactly one
\* ssl_tls::Configure with version TLS 1.3, cert_valid_level 0b111, storage NVM,
\* resume Disabled and lifetime 0, whatever certificate and key ids are given.
C15_TlsProfile ==
    args # NoArgs =>
        IF args.sp_id \in {1, 2, 3, 4, 5, 6}
        THEN /\ ~panicked
             /\ Len(trace) = 1
             /\ trace[1].ev = "ssl_tls::Configure"
             /\ trace[1].sp_id = args.sp_id
             /\ trace[1].version = "Tls13"
             /\ trace[1].cert_valid_level = 1 + 2 + 4
             /\ trace[1].storage_id = "NVM"
             /\ trace[1].resume = "Disabled"
             /\ trace[1].lifetime = 0
        ELSE panicked /\ trace = <<>> /\ inflight = 0 /\ stack = <<>>

C15_Witness ==
    /\ ReturnedOk("configure_tls_profile")
    /\ args.sp_id = 6
    /\ args.ca_cert_id = <<19>> /\ args.client_cert_id = <<>> /\ args.client_private_key_id = <<0>>
    /\ Len(trace) = 1

\* the value signalled last since the signal was last taken, if any
LastSignalled(pending) ==
    IF Signals(pending) = <<>> THEN <<>> ELSE <<Last(Signals(pending)).v>>

\* the same, unless the signal was reset after it
Latched(pending) ==
    IF pending = <<>> \/ ~IsSignalled(Last(pending)) THEN <<>> ELSE <<Last(pending).v>>

\* C16 as stated: mqtt_connected and fix_subscriber each hold at most one value,
\* the one signalled last; a value signalled while no operation is waiting stays
\* latched until the next wait on that signal returns it, and taking it empties
\* the slot.
C16_LatchedUntilTaken ==
    /\ mqtt_connected = LastSignalled(pending_mqtt)
    /\ fix_subscriber = LastSignalled(pending_fix)

\* a wait takes the latched value: the slot is emptied and the operation returns
\* on account of the value signalled last
MqttTaken ==
    pending_mqtt # <<>> /\ pending_mqtt' = <<>> =>
        /\ mqtt_connected' = <<>>
        /\ result'.op = "mqtt_connect"
        /\ IF Last(pending_mqtt).v.rc = "Success"
           THEN result'.kind = "Ok"
           ELSE result'.kind = "Err" /\ result'.val = ErrMQTT(Last(pending_mqtt).v.rc).val

FixTaken ==
    pending_fix # <<>> /\ pending_fix' = <<>> =>
        /\ fix_subscriber' = <<>>
        /\ result'.op = "get_gnss_fix" /\ result'.kind = "Ok"
        /\ IsSignalled(Last(pending_fix)) /\ result'.val = Last(pending_fix).v

\* C16 as amended: each signal holds at most one value, the one signalled last
\* since it was taken; the value stays latched until it is overwritten, taken by
\* the next wait (which returns it at once and empties the slot), or, for
\* fix_subscriber, cleared by the reset at the start of get_gnss_fix.
C16_LatchedUntilTakenOrReset ==
    /\ [](/\ mqtt_connected = Latched(pending_mqtt)
          /\ fix_subscriber = Latched(pending_fix)
          /\ Signals(pending_mqtt) = pending_mqtt
          /\ At("mqtt_connect", "wait") /\ mqtt_window = <<>> => mqtt_connected = <<>>
          /\ At("get_gnss_fix", "wait") /\ fix_window = <<>> => fix_subscriber = <<>>)
    /\ [][MqttTaken /\ FixTaken]_vars

C16_Witness ==
    /\ ReturnedErr("mqtt_connect", ErrMQTT("Auth"))
    /\ mqtt_window = <<>>
    /\ mqtt_connected = <<>>
    /\ pending_fix = <<Signalled([fix_id |-> 0]), Signalled([fix_id |-> 1])>>
    /\ fix_subscriber = <<[fix_id |-> 1]>>

\* a step that drops the future of the operation in progress
Dropped == stack # <<>> /\ result'.kind = "Cancelled"

\* C17: when the future of a high-level operation is dropped at a suspension
\* point, the operation sends no further command and rolls nothing back:
\* cancelling lte_connect while it polls never sends SetFunctionality{Minimum}
\* and leaves reg_state and both signals as they were.
C17_CancelIsSilent ==
    /\ [][Dropped => /\ trace' = trace
                     /\ stack' = <<>> /\ inflight' = 0
                     /\ reg_state' = reg_state
                     /\ mqtt_connected' = mqtt_connected
                     /\ fix_subscriber' = fix_subscriber]_vars
    /\ [][result.kind = "Cancelled" /\ result'.kind = "Cancelled" => trace' = trace]_vars
    /\ [](result = Cancelled("lte_connect") /\ polled # "none" =>
            trace = <<Cmd_SetFunctionality("Full"), Cmd_PLMNSelection("Automatic")>>)

C17_Witness ==
    /\ result = Cancelled("lte_connect")
    /\ polled = "Searching"
    /\ reg_state = "Searching"
    /\ trace = <<Cmd_SetFunctionality("Full"), Cmd_PLMNSelection("Automatic")>>
    /\ mqtt_connected = <<[id |-> 0, rc |-> "Success"]>>

\* seconds from 1970-01-01T00:00:00 to the civil time c of year 1900 + yy (yy >= 69)
\* or 2000 + yy, counted day by day
CivilSeconds(c) ==
    LET year == IF c[1] >= 69 THEN 1900 + c[1] ELSE 2000 + c[1]
        yearDays == IF year >= 1970
                    THEN 365 * (year - 1970)
                         + Cardinality({y \in 1970..(year - 1) : IsLeapYear(y)})
                    ELSE -(365 * (1970 - year)
                           + Cardinality({y \in year..1969 : IsLeapYear(y)}))
        monthDays == Cardinality({<<m, d>> \in (1..12) \X (1..31) :
                                    m < c[2] /\ d <= DaysInMonth(year, m)})
    IN  (yearDays + monthDays + c[3] - 1) * 86400 + c[4] * 3600 + c[5] * 60 + c[6]

\* what the +CCLK string of civil time c, sign and quarter-hour count qq stands for
ClockMeaning(c, sign, qq) ==
    LET offset == (IF sign = "-" THEN -1 ELSE 1) * qq * 900
        instant == CivilSeconds(c) - offset
    IN  IF instant < 1672531200
        THEN [op |-> "from_str", kind |-> "Ok", val |-> [timestamp |-> 0, offset |-> 0]]
        ELSE [op |-> "from_str", kind |-> "Ok",
              val |-> [timestamp |-> instant, offset |-> offset]]

\* C18: for every well-formed clock string yy/MM/dd,HH:mm:ss followed by a sign
\* and a quarter-hour count zz, Clock::from_str computes the instant of that
\* civil time at UTC offset sign * zz * 900 s; it returns UNIX_EPOCH in UTC if
\* and only if that instant is strictly before 1 672 531 200 s, and otherwise
\* the parsed instant with the parsed offset (+08 gives 7200 s, -04 gives -3600 s).
C18_FromStrInstant ==
    \A c \in CivilTimes, sign \in TzSigns, qq \in QuarterHours :
        result.op = "from_str" /\ args.s = ClockStringOf(c, sign, qq) =>
            result = ClockMeaning(c, sign, qq)

C18_Witness ==
    /\ args.s = ClockStringOf(<<22, 12, 31, 22, 0, 0>>, "-", 8)
    /\ result = [op |-> "from_str", kind |-> "Ok",
                 val |-> [timestamp |-> 1672531200, offset |-> -7200]]

\* is s a civil time yy/MM/dd,HH:mm:ss, a sign and a two-digit quarter-hour count?
WellFormedClock(s) ==
    /\ Len(s) = 20
    /\ strptime(SubSeq(s, 1, 17)).ok
    /\ s[18] \in TzSigns
    /\ IsDigit(s[19]) /\ IsDigit(s[20])

\* C19: Clock::from_str returns Err(ClockParseError::InvalidFormat), and never
\* panics, for every input that is not a well-formed clock string: shorter than
\* 20 bytes, a date-time part that does not match yy/MM/dd,HH:mm:ss, or an
\* offset part that is not a valid quarter-hour count (non-numeric, or a number
\* whose offset is outside the representable range, such as a three-digit count).
C19_MalformedIsInvalidFormat ==
    result.op = "from_str" /\ ~WellFormedClock(args.s) =>
        /\ ~panicked
        /\ result = [op |-> "from_str", kind |-> "Err", val |-> NoClock]

\* the pieces of cs between its commas
RECURSIVE SplitCommas(_, _)
SplitCommas(cs, piece) ==
    IF cs = <<>> THEN <<piece>>
    ELSE IF cs[1] = "," THEN <<piece>> \o SplitCommas(Tail(cs), <<>>)
    ELSE SplitCommas(Tail(cs), Append(piece, cs[1]))

WrittenFields == SplitCommas(FieldsOf(trace[1].wire), <<>>)

\* C20: Nullable<T> round-trips in an interior argument position: Nullable::None
\* is written as an empty token between two commas, so that every later field
\* keeps its position (a=0, b=Some(2), c=None, d=4 gives AT+CMD=0,2,,4); an
\* empty token is read as Nullable::None and a token that is a valid T as
\* Nullable::Some(T), without shifting the fields that follow.
C20_NullableRoundTrip ==
    /\ trace # <<>> /\ args.value # <<>> =>
         /\ Len(WrittenFields) = 4
         /\ WrittenFields[1] = serialize_uint(args.value[1])
         /\ WrittenFields[4] = serialize_uint(args.value[4])
         /\ \A i \in {2, 3} : (WrittenFields[i] = <<>>) <=> (args.value[i] = Nullable_None)
         /\ args.value = <<0, Nullable_Some(2), Nullable_None, 4>> =>
              trace[1].wire = <<"A", "T", "+", "C", "M", "D", "=",
                                "0", ",", "2", ",", ",", "4", "\r", "\n">>
    /\ result.op = "from_slice" => result = [op |-> "from_slice", kind |-> "Ok", val |-> args.meaning]

C20_Witness ==
    /\ result.op = "from_slice" /\ result.kind = "Ok"
    /\ result.val = <<0, Nullable_Some(2), Nullable_None, 4>>
    /\ trace # <<>>
    /\ trace[1].wire = <<"A", "T", "+", "C", "M", "D", "=",
                         "0", ",", "2", ",", ",", "4", "\r", "\n">>

\* the literal of each variant
EnumLiteral(v) ==
    CASE v = "IP" -> <<"I", "P">>
      [] v = "IPv4V6" -> <<"I", "P", "V", "4", "V", "6">>
      [] v = "IPv6" -> <<"I", "P", "V", "6">>
      [] v = "NonIP" -> <<"N", "o", "n", "-", "I", "P">>
      [] v = "OSPIH" -> <<"O", "S", "P", "I", "H">>
      [] v = "PPP" -> <<"P", "P", "P">>
      [] v = "X25" -> <<"X", ".", "2", "5">>
      [] v = "Single" -> <<"s", "i", "n", "g", "l", "e">>
      [] v = "Stop" -> <<"s", "t", "o", "p">>

C22_SingleModem ==
    /\ [](modems <= 1)
    /\ [](modems = 1 => cell_init)
    /\ [][cell_init /\ result' = NewReturned("Panic") /\ result # NewReturned("Panic") =>
            panicked' /\ UNCHANGED <<modems, modem_state>>]_vars
    /\ [][cell_init => cell_init' /\ modems' <= modems]_vars

C22_Witness ==
    /\ panicked
    /\ result = NewReturned("Panic")
    /\ modems = 1
    /\ reg_state = "RegisteredHome"

\* C23: get_gnss_fix resets fix_subscriber before it sends ProgramGnss{Single},
\* so a GnssFixReady value latched before the call is never returned as the
\* result of the new call: a returned fix was signalled after the reset.
C23_StaleFixNotReturned ==
    /\ [](ReturnedOk("get_gnss_fix") =>
            /\ fix_window # <<>>
            /\ result.val = [fix_id |-> fix_window[Len(fix_window)].fix_id])
    /\ [][stack = <<>> /\ stack' # <<>> /\ Head(stack').fn = "get_gnss_fix" =>
            /\ fix_subscriber' = <<>>
            /\ trace' = <<Cmd_ProgramGnss("Single")>>]_vars

C23_Witness ==
    /\ ReturnedErr("get_gnss_fix", ErrTimeout)
    /\ pending_fix = <<Signalled([fix_id |-> 0]), WasReset>>
    /\ fix_window = <<>>

\* the task is inside mqtt_connect, or inside the lte_connect it called
InMqttConnect == stack # <<>> /\ stack[Len(stack)].fn = "mqtt_connect"

\* C24: mqtt_connect sends mqtt::Connect{id=0, host, port, keepalive=None} only
\* after lte_connect has returned Ok (a poll read RegisteredHome or
\* RegisteredRoaming) and starts waiting on mqtt_connected only after Connect
\* was acknowledged; if lte_connect or Connect fails, it returns that AT error
\* without waiting on the signal.
C24_MqttConnectOrder ==
    /\ [](InMqttConnect \/ Returned("mqtt_connect") =>
            /\ Len(trace) <= 3
            /\ trace = SubSeq(<<Cmd_SetFunctionality("Full"), Cmd_PLMNSelection("Automatic"),
                                [ev |-> "mqtt::Connect", id |-> 0, host |-> args.host,
                                 port |-> args.port, keepalive |-> "None"]>>, 1, Len(trace))
            /\ Len(trace) = 3 => polled \in {"RegisteredHome", "RegisteredRoaming"}
            /\ At("mqtt_connect", "wait") => Len(trace) = 3 /\ inflight = 0
            /\ result.kind = "Ok" \/ ReturnedErr("mqtt_connect", ErrTimeout)
                 \/ (result.kind = "Err" /\ ~ReturnedAT("mqtt_connect")) => Len(trace) = 3)
    /\ [][stack # <<>> /\ result'.op = "mqtt_connect" /\ result'.kind = "Err"
            /\ result'.val = ErrAT.val =>
               /\ Head(stack).pc \in {"cfun", "cops", "connect"}
               /\ mqtt_connected' = mqtt_connected]_vars

C24_Witness ==
    /\ ReturnedAT("mqtt_connect")
    /\ Len(trace) = 3
    /\ polled = "RegisteredRoaming"
    /\ mqtt_connected = <<[id |-> 0, rc |-> "Success"]>>

\* the raw payload command of the operation in progress, and its prepare command
IsPayload(e) == e.ev \in {"nvm::Write", "mqtt::Publish"}
IsPrepare(e) == e.ev \in {"nvm::PrepareWrite", "mqtt::PreparePublish"}
PayloadOf(prepare) ==
    IF prepare.ev = "nvm::PrepareWrite" THEN Cmd_Write(args.data) ELSE Cmd_Publish(args.data)

\* C25: in nvm_write and mqtt_send the raw payload command (nvm::Write,
\* mqtt::Publish) is sent only directly after its prepare command was
\* acknowledged, with no other command in between; if the prepare command
\* fails, the operation returns that error and the payload is never written.
C25_PayloadAfterPrepare ==
    /\ [](/\ Len(trace) <= 2
          /\ trace # <<>> => IsPrepare(trace[1])
          /\ Len(trace) = 2 => trace[2] = PayloadOf(trace[1])
          /\ stack # <<>> /\ Head(stack).pc = "prepare" => Len(trace) = 1 /\ inflight = 1)
    /\ [][stack # <<>> /\ Head(stack).pc = "prepare" =>
            \/ /\ result'.kind = "Err" /\ result'.val = ErrAT.val
               /\ stack' = <<>> /\ trace' = trace /\ inflight' = 0
            \/ /\ result' = NoResult
               /\ trace' = Append(trace, PayloadOf(trace[1]))
               /\ Head(stack').pc \in {"write", "publish"} /\ inflight' = 1]_vars
    /\ [][Len(trace') > Len(trace) /\ IsPayload(trace'[Len(trace')]) =>
            stack # <<>> /\ Head(stack).pc = "prepare"]_vars

C25_Witness ==
    /\ ReturnedAT("mqtt_send")
    /\ Len(trace) = 1
    /\ args.data = <<"h", "i">>

\* C26: when the first GetClock of get_time returns a valid (non-sentinel)
\* clock, get_time returns it after sending exactly that one command: no
\* SetFunctionality, PLMNSelection or further GetClock is sent and no delay is
\* taken.
C26_GetTimeValidAtOnce ==
    /\ stack # <<>> /\ stack[Len(stack)].fn = "get_time" /\ readings # <<>> =>
          readings[1].timestamp = 0
    /\ Returned("get_time") /\ readings # <<>> /\ readings[1].timestamp # 0 =>
          /\ ReturnedOk("get_time")
          /\ result.val = readings[1]
          /\ readings = <<result.val>>
          /\ trace = <<Cmd_GetClock>>
          /\ inflight = 0

C26_Witness ==
    /\ ReturnedOk("get_time")
    /\ trace = <<Cmd_GetClock>>
    /\ result.val.timestamp >= 1672531200
    /\ result.val.offset = 7200
    /\ reg_state = "NotSearching"

\* the suspension points of update_gnss_asistance after its first check
AfterFirstCheck ==
    {"lte_connect", "almanac", "ephemeris", "check_sleep", "check_loop", "lte_disconnect1"}

\* C27: when the first assistance check of update_gnss_asistance finds that
\* neither almanac nor real-time ephemeris needs an update, the operation
\* returns Ok at once: after that GetGnssAssitance it sends no
\* SetFunctionality{Full}, no PLMNSelection, no UpdateGnssAssitance and no
\* further GetGnssAssitance.
C27_NothingToUpdate ==
    /\ stack # <<>> /\ stack[Len(stack)].fn = "update_gnss_asistance"
          /\ stack[Len(stack)].pc \in AfterFirstCheck =>
          /\ assistance # <<>>
          /\ NeedsAlmanac(assistance[1]) \/ NeedsEphemeris(assistance[1])
    /\ Returned("update_gnss_asistance") /\ assistance # <<>>
          /\ ~NeedsAlmanac(assistance[1]) /\ ~NeedsEphemeris(assistance[1]) =>
          /\ ReturnedOk("update_gnss_asistance")
          /\ Len(assistance) = 1
          /\ ~update_almanac /\ ~update_ephemeris
          /\ checks = 0
          /\ Last(trace) = Cmd_GetGnssAssitance
          /\ \A i \in 1..(Len(trace) - 1) :
                /\ trace[i] # Cmd_GetGnssAssitance
                /\ trace[i].ev # "UpdateGnssAssitance"

C27_Witness ==
    /\ ReturnedOk("update_gnss_asistance")
    /\ Len(assistance) = 1
    /\ ~update_almanac /\ ~update_ephemeris
    /\ trace = <<Cmd_SetFunctionality("Minimum"), Cmd_GetClock, Cmd_GetGnssAssitance>>

\* C28: nvm_write with an allowed index sends PrepareWrite{data_type, index,
\* size = data.len()} and then Write with exactly the bytes of data, for every
\* data length including zero: with empty data it announces size 0 and still
\* issues the raw Write with an empty payload and awaits its response.
C28_NvmWriteCommands ==
    LET prepare == [ev |-> "nvm::PrepareWrite", data_type |-> args.data_type,
                    index |-> args.index, size |-> Len(args.data)]
        write == [ev |-> "nvm::Write", data |-> args.data]
    IN  /\ At("nvm_write", "prepare") => trace = <<prepare>> /\ inflight = 1
        /\ At("nvm_write", "write") => trace = <<prepare, write>> /\ inflight = 1
        /\ ReturnedOk("nvm_write") => trace = <<prepare, write>> /\ inflight = 0
        /\ Returned("nvm_write") \/ stack # <<>> => args.index \in {5, 6} \cup (11..255)

C28_Witness ==
    /\ ReturnedOk("nvm_write")
    /\ args.data = <<>>
    /\ args.index = 5
    /\ trace = <<[ev |-> "nvm::PrepareWrite", data_type |-> "Certificate", index |-> 5,
                  size |-> 0],
                 [ev |-> "nvm::Write", data |-> <<>>]>>

\* the URC variants for which UrcHandler::run only logs
LogOnlyUrcs ==
    { "MqttDisconnected", "MqttMessagePublished", "MqttMessageReceived", "MqttSubscribed",
      "MqttPromptToPublish", "Shutdown", "Start", "CoapConnected" }

\* the step is an iteration of UrcHandler::run for a message of the given variants
HandlerStepFor(urcs) == urc_pos' # urc_pos /\ handled'[1].urc \in urcs

\* C29: every field of ModemState has one writer.  reg_state changes only in a
\* UrcHandler step for NetworkRegistrationStatus, which stores the stat of the
\* message; a value appears in mqtt_connected only in a step for MqttConnected and
\* in fix_subscriber only in a step for GnssFixReady, and a handler step for
\* another variant leaves the field as it is; a handler step for one of the eight
\* log-only variants changes nothing of ModemState; a step of a Modem operation
\* leaves reg_state as it is (it may only empty the two signals).
C29_SingleWriter ==
    [][ /\ reg_state' # reg_state =>
              /\ HandlerStepFor({"NetworkRegistrationStatus"})
              /\ reg_state' = handled'[1].stat
        /\ mqtt_connected' # mqtt_connected /\ mqtt_connected' # <<>> =>
              /\ HandlerStepFor({"MqttConnected"})
              /\ mqtt_connected' = <<[id |-> handled'[1].id, rc |-> handled'[1].rc]>>
        /\ fix_subscriber' # fix_subscriber /\ fix_subscriber' # <<>> =>
              /\ HandlerStepFor({"GnssFixReady"})
              /\ fix_subscriber' = <<[fix_id |-> handled'[1].fix_id]>>
        /\ urc_pos' # urc_pos /\ handled'[1].urc # "MqttConnected" =>
              mqtt_connected' = mqtt_connected
        /\ urc_pos' # urc_pos /\ handled'[1].urc # "GnssFixReady" =>
              fix_subscriber' = fix_subscriber
        /\ HandlerStepFor(LogOnlyUrcs) => UNCHANGED modem_state
        /\ urc_pos' = urc_pos => reg_state' = reg_state
      ]_vars

\* a handler step for MqttDisconnected has happened while the network was
\* registered and mqtt_connected held a value, after lte_connect returned Ok
C29_Witness ==
    /\ handled = <<[urc |-> "MqttDisconnected"]>>
    /\ reg_state = "RegisteredHome"
    /\ mqtt_connected # <<>>
    /\ result.op = "lte_connect" /\ result.kind = "Ok"

\* does the trace hold the command?
Sent(cmd) == \E i \in 1..Len(trace) : trace[i] = cmd

\* the part of the single-writer property that needs no record of the handler's message: a step of the
\* task that calls the operations leaves reg_state as it is and may only empty
\* the two signals; it holds of SpecBegin, SpecNvm, SpecMqttSend, SpecTls and
\* SpecGnssAssist as well, whose handlers record nothing
OperationsKeepModemState ==
    [][stack' # stack => /\ reg_state' = reg_state
                         /\ mqtt_connected' \in {mqtt_connected, <<>>}
                         /\ fix_subscriber' \in {fix_subscriber, <<>>}]_vars

\* C30: a command of the synchronising path of get_time that fails with an AT
\* error ends get_time with that error at once.  When get_time returned
\* Err(AT) after its first GetClock succeeded, the failed command is the last
\* entry of the trace and nothing is in flight; unless that command is the
\* SetFunctionality{Minimum} of lte_disconnect itself, no SetFunctionality{Minimum}
\* was sent; and when it is a retry GetClock, lte_connect had sent
\* SetFunctionality{Full} and PLMNSelection{Automatic}, so the modem stays in full
\* functionality.  The step in which a retry GetClock fails with an error (send
\* returns, without a panic of the deserializer) empties the stack and adds
\* nothing to the trace.
C30_GetTimeRetryError ==
    /\ [](ReturnedAT("get_time") /\ stack = <<>> /\ readings # <<>> =>
            /\ inflight = 0
            /\ Last(trace).ev \in {"SetFunctionality", "PLMNSelection", "GetClock"}
            /\ Last(trace) # Cmd_SetFunctionality("Minimum") =>
                  ~Sent(Cmd_SetFunctionality("Minimum"))
            /\ Last(trace) = Cmd_GetClock =>
                  /\ Sent(Cmd_SetFunctionality("Full"))
                  /\ Sent(Cmd_PLMNSelection("Automatic"))
                  /\ retries \in 1..GET_TIME_RETRIES
                  /\ Len(readings) = retries)
    /\ [][At("get_time", "clock_retry") /\ readings' = readings /\ stack' # stack
            /\ ~panicked' =>
            /\ stack' = <<>>
            /\ ReturnedAT("get_time")'
            /\ trace' = trace
            /\ inflight' = 0]_vars

\* get_time has returned Err(AT) from the third retry GetClock, after two retries
\* that read an invalid clock, with the network registered
C30_Witness ==
    /\ ReturnedAT("get_time") /\ stack = <<>>
    /\ Last(trace) = Cmd_GetClock
    /\ retries = 3
    /\ Len(readings) = 3
    /\ reg_state = "RegisteredHome"

\* C31: a failed command of begin() makes begin() return the error with
\* initialized still false, and the next begin() starts again from +CMEE=1.  In
\* the log of begin(), an Err return follows the command that failed directly,
\* the entry after an Err return is +CMEE=1, and +CEREG=1 follows a +CMEE=1
\* directly; while no begin() has returned Ok, initialized is false.
C31_BeginRetriesFromCmee ==
    LET cmee == Cmd_ConfigureCMEErrorReports("Numeric")
        cereg == Cmd_ConfigureCEREGReports("Enabled")
    IN  /\ \A i \in 1..Len(begun) :
              /\ begun[i] = BeginReturned("Err") =>
                    /\ i > 1 /\ begun[i - 1] \in {cmee, cereg}
                    /\ i < Len(begun) => begun[i + 1] = cmee
              /\ begun[i] = cereg => i > 1 /\ begun[i - 1] = cmee
        /\ (\A i \in 1..Len(begun) : begun[i] # BeginReturned("Ok")) => ~initialized
        /\ ReturnedAT("begin") /\ stack = <<>> =>
              /\ ~initialized
              /\ Last(begun) = BeginReturned("Err")
              /\ inflight = 0

\* +CMEE=1 succeeded and +CEREG=1 failed, and the next begin() has sent +CMEE=1
\* a second time
C31_Witness ==
    /\ begun = <<Cmd_ConfigureCMEErrorReports("Numeric"), Cmd_ConfigureCEREGReports("Enabled"),
                 BeginReturned("Err"), Cmd_ConfigureCMEErrorReports("Numeric")>>
    /\ At("begin", "cmee")
    /\ ~initialized

\* the ProgramGnss{Single} send of get_gnss_fix returns Ok in this step
ProgramAcknowledged ==
    /\ At("get_gnss_fix", "program")
    /\ inflight' = inflight - 1
    /\ ~ReturnedAT("get_gnss_fix")'

\* C32: a GnssFixReady value that the handler signals after the reset of
\* get_gnss_fix and while the ProgramGnss{Single} send is still pending is not
\* lost.  When the send returns Ok with a value latched, the wait takes it in the
\* same step: get_gnss_fix returns Ok with that value, the slot is emptied and no
\* further command is sent.  A call during whose send a fix was signalled and that
\* did not fail on the send has no instant at which it waits.
C32_FixDuringProgramNotLost ==
    /\ [][ProgramAcknowledged /\ fix_subscriber # <<>> =>
            /\ stack' = <<>>
            /\ result' = [op |-> "get_gnss_fix", kind |-> "Ok", val |-> fix_subscriber[1]]
            /\ fix_subscriber[1].fix_id = Last(fix_window).fix_id
            /\ Last(fix_window).during = "program"
            /\ fix_subscriber' = <<>>
            /\ trace' = trace /\ trace = <<Cmd_ProgramGnss("Single")>>]_vars
    /\ [](fix_window # <<>> /\ fix_window[1].during = "program" =>
            ~At("get_gnss_fix", "wait") /\ ~At("get_gnss_fix", "stop"))

\* get_gnss_fix has returned the fix that was signalled while its send was pending
C32_Witness ==
    /\ ReturnedOk("get_gnss_fix")
    /\ fix_window = <<[fix_id |-> 1, during |-> "program"]>>
    /\ result.val = [fix_id |-> 1]
    /\ trace = <<Cmd_ProgramGnss("Single")>>

\* the task is inside the given operation
Inside(fn) == stack # <<>> /\ Head(stack).fn = fn

\* the last command of the given operation is acknowledged in this step
Acknowledged(fn, pc) ==
    /\ At(fn, pc)
    /\ stack' # stack
    /\ ~(result'.kind = "Err" /\ stack' = <<>>)

\* C33: lte_connect and lte_disconnect neither clear nor re-validate reg_state.
\* No step of the Modem task changes reg_state.  When PLMNSelection is
\* acknowledged while reg_state is RegisteredHome or RegisteredRoaming,
\* lte_connect returns Ok in that step, at its first poll (to its caller when it
\* was called by another operation); when
\* SetFunctionality{Minimum} is acknowledged while reg_state is NotSearching,
\* lte_disconnect returns Ok in that step.  On a Modem whose UrcHandler has
\* processed no message, lte_disconnect never sleeps and returns Ok once its one
\* command is acknowledged.
C33_NoRevalidation ==
    /\ [][urc_pos' = urc_pos => reg_state' = reg_state]_vars
    /\ [][Acknowledged("lte_connect", "cops") /\ reg_state \in Registered =>
            /\ ~Inside("lte_connect")'
            /\ polled' = reg_state
            /\ Len(stack) = 1 =>
                  stack' = <<>> /\ ReturnedOk("lte_connect")' /\ trace' = trace
            /\ UNCHANGED <<modem_state, urc_pos>>]_vars
    /\ [][Acknowledged("lte_disconnect", "cfun") /\ reg_state = "NotSearching" =>
            /\ ~Inside("lte_disconnect")'
            /\ polled' = reg_state
            /\ Len(stack) = 1 =>
                  stack' = <<>> /\ ReturnedOk("lte_disconnect")' /\ trace' = trace
            /\ UNCHANGED <<modem_state, urc_pos>>]_vars
    /\ [](urc_pos = 0 =>
            /\ reg_state = "NotSearching"
            /\ ~At("lte_disconnect", "poll_sleep")
            /\ ReturnedOk("lte_disconnect") =>
                  trace = <<Cmd_SetFunctionality("Minimum")>> /\ polled = "NotSearching")

\* lte_disconnect has returned Ok on a Modem whose handler has processed no message
C33_Witness ==
    /\ urc_pos = 0
    /\ ReturnedOk("lte_disconnect")
    /\ stack = <<>>
    /\ trace = <<Cmd_SetFunctionality("Minimum")>>
    /\ reg_state = "NotSearching"

\* reg_state after the first n entries of observed
RECURSIVE RegStateAfter(_)
RegStateAfter(n) ==
    IF n = 0 THEN "NotSearching"
    ELSE IF observed[n].ev = "cereg" THEN observed[n].state
    ELSE RegStateAfter(n - 1)

IsPoll(i) == observed[i].ev = "poll"

\* C34: lte_connect samples reg_state at its polls only.  Every poll reads the
\* value stored last before it; lte_connect has returned Ok exactly when a poll
\* read RegisteredHome or RegisteredRoaming, and that poll is its last one; while
\* it sleeps, every poll so far read another value, whatever was stored between
\* the polls.  So a RegisteredHome that is stored after one poll and overwritten
\* before the next leaves lte_connect polling.
C34_SampledAtPolls ==
    /\ \A i \in 1..Len(observed) : IsPoll(i) =>
          /\ observed[i].state = RegStateAfter(i - 1)
          /\ observed[i].state \in Registered =>
                \A j \in (i + 1)..Len(observed) : ~IsPoll(j)
    /\ ReturnedOk("lte_connect") <=>
          \E i \in 1..Len(observed) : IsPoll(i) /\ observed[i].state \in Registered
    /\ At("lte_connect", "poll_sleep") =>
          /\ \E i \in 1..Len(observed) : IsPoll(i)
          /\ polled \notin Registered
    /\ reg_state = RegStateAfter(Len(observed))

\* reg_state was RegisteredHome between two polls of lte_connect and was
\* overwritten before the second one: lte_connect is still polling
C34_Witness ==
    /\ observed = <<Polled("NotSearching"), Notified("RegisteredHome"),
                    Notified("Searching"), Polled("Searching")>>
    /\ At("lte_connect", "poll_sleep")
    /\ polled = "Searching"

\* C35: with timers that fire, lte_connect whose two commands succeeded returns
\* Ok eventually if reg_state stays RegisteredHome or RegisteredRoaming from some
\* point on, and lte_disconnect whose command succeeded returns Ok eventually if
\* reg_state stays NotSearching from some point on.  If reg_state never becomes
\* registered (as when the UrcHandler never runs on a new Modem), lte_connect
\* that has started to poll never leaves its loop.
C35_LteTermination ==
    /\ <>[](reg_state \in Registered) =>
          (At("lte_connect", "poll_sleep") ~> ReturnedOk("lte_connect"))
    /\ <>[](reg_state = "NotSearching") =>
          (At("lte_disconnect", "poll_sleep") ~> ReturnedOk("lte_disconnect"))
    /\ [](reg_state \notin Registered) =>
          [](At("lte_connect", "poll_sleep") => [](At("lte_connect", "poll_sleep")))
    /\ [](reg_state \notin Registered) => [](~ReturnedOk("lte_connect"))

\* lte_connect has returned Ok from a poll that read a roaming registration
C35_Witness ==
    /\ ReturnedOk("lte_connect")
    /\ polled = "RegisteredRoaming"
    /\ reg_state = "RegisteredRoaming"
    /\ trace = <<Cmd_SetFunctionality("Full"), Cmd_PLMNSelection("Automatic")>>

\* the SetFunctionality commands of the trace, in order
Functionalities == SelectSeq(trace, LAMBDA e : e.ev = "SetFunctionality")

\* the entries of the trace after the last SetFunctionality
RECURSIVE AfterLastFunctionality(_)
AfterLastFunctionality(tr) ==
    IF tr = <<>> \/ Last(tr).ev = "SetFunctionality" THEN <<>>
    ELSE Append(AfterLastFunctionality(SubSeq(tr, 1, Len(tr) - 1)), Last(tr))

\* C36: whenever update_gnss_asistance has returned Ok, on the early return as
\* on the update path, the last SetFunctionality it sent is Minimum, the last
\* value it read from reg_state, after that command, is NotSearching, and no
\* PLMNSelection was sent after that command.  On the update path that
\* command is the last entry of the trace.
C36_DetachedOnOk ==
    ReturnedOk("update_gnss_asistance") =>
        /\ Functionalities # <<>>
        /\ Last(Functionalities) = Cmd_SetFunctionality("Minimum")
        /\ polled = "NotSearching"
        /\ \A i \in 1..Len(AfterLastFunctionality(trace)) :
              AfterLastFunctionality(trace)[i].ev \in {"GetClock", "GetGnssAssitance"}
        /\ checks > 0 => Last(trace) = Cmd_SetFunctionality("Minimum")

\* update_gnss_asistance has returned Ok on the early-return path after get_time
\* had to synchronise the clock over LTE
C36_Witness ==
    /\ ReturnedOk("update_gnss_asistance")
    /\ checks = 0
    /\ Functionalities = <<Cmd_SetFunctionality("Minimum"), Cmd_SetFunctionality("Full"),
                           Cmd_SetFunctionality("Minimum")>>
    /\ Last(trace) = Cmd_GetGnssAssitance
    /\ polled = "NotSearching"

\* how often the trace holds the entry
Count(e) == Len(SelectSeq(trace, LAMBDA x : x = e))

\* C37: the polling loop of update_gnss_asistance ends after at most
\* UPDATE_ASSISTANCE_POLLS checks, so one call sends at most 11 GetGnssAssitance
\* commands and sleeps at most 10 times for 10 s.  When the operation has returned
\* Ok with update_almanac or update_ephemeris still set, all 10 checks of the
\* loop were made and lte_disconnect ran last: Ok does not say that the
\* assistance data is up to date.
C37_PollingLoopBounded ==
    /\ checks \in 0..UPDATE_ASSISTANCE_POLLS
    /\ Count(Delay(UPDATE_ASSISTANCE_POLL_MS)) = checks
    /\ Count(Cmd_GetGnssAssitance) <= checks + 1
    /\ Count(Cmd_GetGnssAssitance) <= 11
    /\ ReturnedOk("update_gnss_asistance") /\ (update_almanac \/ update_ephemeris) =>
          /\ checks = UPDATE_ASSISTANCE_POLLS
          /\ Count(Cmd_GetGnssAssitance) = 11
          /\ Last(trace) = Cmd_SetFunctionality("Minimum")
          /\ Len(assistance) = 2
          /\ NeedsAlmanac(assistance[2]) = update_almanac
          /\ NeedsEphemeris(assistance[2]) = update_ephemeris

\* update_gnss_asistance has returned Ok after 10 checks with both flags still set
C37_Witness ==
    /\ ReturnedOk("update_gnss_asistance")
    /\ checks = 10
    /\ update_almanac /\ update_ephemeris
    /\ Count(Cmd_GetGnssAssitance) = 11
    /\ Last(trace) = Cmd_SetFunctionality("Minimum")

\* the records of type typ in a response, in order
RecordsOf(data, typ) == SelectSeq(data, LAMBDA r : r.typ = typ)

\* does the last record of type typ in the response report available data that
\* needs no update yet?
ReportsFresh(data, typ) ==
    /\ RecordsOf(data, typ) # <<>>
    /\ Last(RecordsOf(data, typ)).available = "True"
    /\ Last(RecordsOf(data, typ)).time_to_update > 0

\* this step is a check_assistance_data that processes a response
Checked == At("check_assistance_data", "get") /\ ReturnedOk("check_assistance_data")'

\* C38: check_assistance_data computes both flags from the response alone,
\* whatever an earlier check left in them.  A type without a record in the
\* response ends with its flag false; a type whose (last) record reports
\* available data with time_to_update > 0 ends with its flag false, also when the
\* flag was set before; in every other case the flag ends true.
C38_FlagsFromScratch ==
    [][Checked =>
        LET data == Last(assistance')
        IN  /\ RecordsOf(data, "Almanac") = <<>> => ~update_almanac'
            /\ RecordsOf(data, "RealTimeEphemeris") = <<>> => ~update_ephemeris'
            /\ ReportsFresh(data, "Almanac") => ~update_almanac'
            /\ ReportsFresh(data, "RealTimeEphemeris") => ~update_ephemeris'
            /\ update_almanac' <=>
                  RecordsOf(data, "Almanac") # <<>> /\ ~ReportsFresh(data, "Almanac")
            /\ update_ephemeris' <=>
                  /\ RecordsOf(data, "RealTimeEphemeris") # <<>>
                  /\ ~ReportsFresh(data, "RealTimeEphemeris")]_vars

\* a check has processed a response with a fresh almanac record and no
\* real-time ephemeris record: both flags are false
C38_Witness ==
    /\ ReturnedOk("check_assistance_data")
    /\ assistance = << <<Assistance("Almanac", "True", 1)>> >>
    /\ ~update_almanac /\ ~update_ephemeris

\* C39: for every hand-serialised argument type the declared wire length is at
\* least the number of bytes of the encoding of each variant: written into a
\* buffer of the declared length, every variant of PDPType (8), nvm DataType (12),
\* ProgramGnssAction (8) and Reserved (1) fits.
C39_DeclaredLenSuffices ==
    result.op = "to_slice" /\ args.cap = DeclaredLen(args) =>
        /\ result.kind = "Ok"
        /\ result.val <= DeclaredLen(args)
        /\ Len(trace[1].wire) = result.val

====
